---- MODULE Spec2Model ----
(***************************************************************************)
(* beaver-routes: the request-composition pipeline of core/route.py        *)
(* (BaseRoute): the recursive merge of request-argument fragments, the     *)
(* validation of the merged descriptor, the after-hook registry and the    *)
(* dispatch of a verb call.                                                *)
(***************************************************************************)
EXTENDS Integers, Sequences, FiniteSets, TLC

VARIABLES
    container,        \* an AttributeDictionary object
    container_before, \* the same object before the last operation on it
    operation,        \* the last operation on it: its arguments and what it returned or raised
    merged_args,      \* _merge_request_args: the accumulator after the fragments merged so far
    merged_before,    \* the accumulator before the last fragment was merged
    dictionary,       \* the fragment merged last (the outer loop's variable)
    dictionary_after, \* the same fragment object as the merge left it
    removed_before,   \* the keys popped from the accumulator before the last fragment was merged
    cls,              \* the derived route class: its endpoint and its overrides
    scenario_method,  \* BaseMixin.scenario_method: None or the bound scenario
    current_scenario_group,
    current_scenario_name,
    for_scenario_result, \* the last for_scenario call: what it raised, the group it instantiated
    after_hooks,      \* BaseMixin._after_hooks: scope -> list of hooks
    hooks_before,     \* _after_hooks as the last composition found it, before clearing it
    request_args,     \* BaseMixin._request_args
    response,         \* BaseMixin._response
    scenario,         \* base_route.BaseRoute.scenario: None or the name for_scenario stored
    frame,            \* per caller: the locals of _invoke (method_hooks, httpx_args)
    pc,               \* per caller: where its verb call stands
    call,             \* per caller: the verb and the keyword arguments of its call
    result,           \* per caller: what its call returned or raised
    sent,             \* per caller: the transport invocations of its call
    fired             \* per caller: the after hooks its call has called, in order

containerVars == <<container, container_before, operation>>
mergeVars == <<merged_args, merged_before, dictionary, dictionary_after, removed_before>>
routeVars == <<cls, scenario_method, current_scenario_group, current_scenario_name,
               for_scenario_result, after_hooks, hooks_before, request_args, response, pc, call, result, sent, fired>>
metaVars == <<scenario, frame>>
vars == <<container, container_before, operation, merged_args, merged_before, dictionary,
          dictionary_after, removed_before, cls, scenario_method,
          current_scenario_group, current_scenario_name, for_scenario_result, after_hooks,
          hooks_before, request_args,
          response, scenario, frame, pc, call, result, sent, fired>>

-----------------------------------------------------------------------------
(* Python values.  A value is None, a scalar, a string, a list, a plain     *)
(* dict or an AttributeDictionary; the last two carry a function from keys  *)
(* to values.                                                               *)

None == [t |-> "none"]
Val(n) == [t |-> "val", v |-> n]
Str(s) == [t |-> "str", s |-> s]
Dict(m) == [t |-> "dict", m |-> m]
List(l) == [t |-> "list", l |-> l]
AttributeDictionary(m) == [t |-> "ad", m |-> m]

EmptyMap == [k \in {} |-> None]
Put(m, key, value) == [k \in DOMAIN m \cup {key} |-> IF k = key THEN value ELSE m[k]]
Pop(m, key) == [k \in DOMAIN m \ {key} |-> m[k]]

(* The outcome of a call: a returned value or a raised exception.          *)
Ok(value) == [err |-> "", ok |-> TRUE, val |-> value]
Raise(error) == [err |-> error, ok |-> FALSE, val |-> None]
RaiseWith(error, detail) == [err |-> error, ok |-> FALSE, val |-> detail]

MS == "_merge_strategy"

(* Dicts keep insertion order; the fragments of the model are written with *)
(* their keys in this order, which fixes the order of the loops over       *)
(* items().                                                                *)
KeyOrder == <<"_merge_strategy", "items", "keys", "x", "a", "b", "c",
              "url_placeholders", "url", "headers", "cookies", "auth", "timeout",
              "allow_redirects", "follow_redirects", "proxies", "verify", "stream",
              "cert", "extensions", "params", "data", "json", "files", "content",
              "endpoint", "id", "name", "extra">>

KeysOf(m) == SelectSeq(KeyOrder, LAMBDA k : k \in DOMAIN m)

-----------------------------------------------------------------------------
(* AttributeDictionary.to_dict                                              *)

RECURSIVE ToDictItems(_, _, _)
ToDictItems(data, keys, converted) ==
    IF keys = <<>> THEN Ok(converted)
    ELSE LET key == Head(keys)
             value == data[key]
         IN  IF key \in {"items", "keys"} THEN Raise("AttributeError")
             ELSE IF value.t = "ad"
                  THEN LET sub == ToDictItems(value.m, KeysOf(value.m), EmptyMap)
                       IN  IF sub.ok
                           THEN ToDictItems(data, Tail(keys), Put(converted, key, Dict(sub.val)))
                           ELSE sub
                  ELSE ToDictItems(data, Tail(keys), Put(converted, key, value))

(* to_dict looking for the reserved keys in the container itself only.     *)
RECURSIVE Unwrapped(_)
Unwrapped(value) ==
    IF value.t = "ad" THEN Dict([k \in DOMAIN value.m |-> Unwrapped(value.m[k])]) ELSE value
to_dict_OwnKeysOnly(data) ==
    IF DOMAIN data \cap {"items", "keys"} # {} THEN Raise("AttributeError")
    ELSE Ok([k \in DOMAIN data |-> Unwrapped(data[k])])
to_dict(data) == ToDictItems(data, KeysOf(data), EmptyMap)

-----------------------------------------------------------------------------
(* BaseRoute._merge_request_args                                            *)

VALID_MERGE_STRATEGIES == <<"deep_merge", "replace", "remove">>

RECURSIVE merge_request_args(_)
RECURSIVE MergeDictionaries(_, _)
RECURSIVE MergeItems(_, _, _)

(* ApplyStrategy with the remove branch storing the mapping instead of     *)
(* deleting the key.                                                       *)
ApplyStrategy_RemoveStores(merged, key, value) ==
    LET merge_strategy == IF MS \in DOMAIN value.m THEN value.m[MS] ELSE Str("deep_merge")
        popped == Dict(Pop(value.m, MS))
    IN  IF merge_strategy = Str("deep_merge")
        THEN LET sub == merge_request_args(<<merged[key], popped>>)
             IN  IF sub.ok THEN Ok(Put(merged, key, Dict(sub.val))) ELSE sub
        ELSE IF merge_strategy \in {Str("replace"), Str("remove")}
             THEN Ok(Put(merged, key, popped))
        ELSE Raise("ValueError")

(* ApplyStrategy with the replace branch merging into the lower mapping.   *)
ApplyStrategy_ReplaceMerges(merged, key, value) ==
    LET merge_strategy == IF MS \in DOMAIN value.m THEN value.m[MS] ELSE Str("deep_merge")
        popped == Dict(Pop(value.m, MS))
    IN  IF merge_strategy \in {Str("deep_merge"), Str("replace")}
        THEN LET sub == merge_request_args(<<merged[key], popped>>)
             IN  IF sub.ok THEN Ok(Put(merged, key, Dict(sub.val))) ELSE sub
        ELSE IF merge_strategy = Str("remove") THEN Ok(Pop(merged, key))
        ELSE Raise("ValueError")

(* The both-are-dicts branch: pop the directive and apply the strategy.    *)
(* Returns the accumulator after this key, or the raised error.            *)
ApplyStrategy(merged, key, value) ==
    LET merge_strategy == IF MS \in DOMAIN value.m THEN value.m[MS] ELSE Str("deep_merge")
        popped == Dict(Pop(value.m, MS))
    IN  IF merge_strategy = Str("deep_merge")
        THEN LET sub == merge_request_args(<<merged[key], popped>>)
             IN  IF sub.ok THEN Ok(Put(merged, key, Dict(sub.val))) ELSE sub
        ELSE IF merge_strategy = Str("replace") THEN Ok(Put(merged, key, popped))
        ELSE IF merge_strategy = Str("remove") THEN Ok(Pop(merged, key))
        ELSE Raise("ValueError")

(* StoreValue leaving out a mapping that carries the remove directive.     *)
StoreValue_RemoveSkips(merged, key, value) ==
    IF key = MS THEN merged
    ELSE IF value.t = "dict" /\ MS \in DOMAIN value.m /\ value.m[MS] = Str("remove")
         THEN Pop(merged, key)
    ELSE Put(merged, key, IF value.t = "dict" THEN Dict(Pop(value.m, MS)) ELSE value)

(* The other branch: the directive key itself is skipped, a dict loses its *)
(* own directive entry, and the value is stored.                           *)
StoreValue(merged, key, value) ==
    IF key = MS THEN merged
    ELSE Put(merged, key, IF value.t = "dict" THEN Dict(Pop(value.m, MS)) ELSE value)

(* The inner loop: for key, value in dictionary.items().                   *)
MergeItems(merged, items, keys) ==
    IF keys = <<>> THEN Ok(merged)
    ELSE LET key == Head(keys)
             raw == items[key]
             conv == IF raw.t = "ad" THEN to_dict(raw.m) ELSE Ok(EmptyMap)
             value == IF raw.t = "ad" THEN Dict(conv.val) ELSE raw
         IN  IF ~conv.ok THEN conv
             ELSE IF key \in DOMAIN merged /\ merged[key].t = "dict" /\ value.t = "dict"
                  THEN LET step == ApplyStrategy(merged, key, value)
                       IN  IF step.ok THEN MergeItems(step.val, items, Tail(keys)) ELSE step
                  ELSE MergeItems(StoreValue(merged, key, value), items, Tail(keys))

(* One iteration of the outer loop: for dictionary in request_args.        *)
MergeDictionary(merged, frag) ==
    IF frag.t = "ad"
    THEN LET conv == to_dict(frag.m)
         IN  IF conv.ok THEN MergeItems(merged, conv.val, KeysOf(conv.val)) ELSE conv
    ELSE IF frag.t = "dict" THEN MergeItems(merged, frag.m, KeysOf(frag.m))
    ELSE Raise("AttributeError")

MergeDictionaries(merged, args) ==
    IF args = <<>> THEN Ok(merged)
    ELSE LET step == MergeDictionary(merged, Head(args))
         IN  IF step.ok THEN MergeDictionaries(step.val, Tail(args)) ELSE step

merge_request_args(args) == MergeDictionaries(EmptyMap, args)

(* What the loops leave of the dictionary they iterate: value.pop takes    *)
(* the directive out of the nested mapping held by the dictionary itself,  *)
(* in both branches, and the recursive call does the same to the mappings  *)
(* inside value.  A container is converted first, so the pops act on the   *)
(* converted copy.  `ok` says whether the loop ran to its end.             *)
Left(ok, items) == [ok |-> ok, m |-> items]
RECURSIVE ItemsAfter(_, _, _)
ItemsAfter(merged, items, keys) ==
    IF keys = <<>> THEN Left(TRUE, items)
    ELSE LET key == Head(keys)
             value == items[key]
             step == MergeItems(merged, items, <<key>>)
         IN  IF value.t # "dict" \/ (key = MS /\ ~(key \in DOMAIN merged /\ merged[key].t = "dict"))
             THEN IF step.ok THEN ItemsAfter(step.val, items, Tail(keys))
                  ELSE Left(FALSE, items)
             ELSE LET popped == Dict(Pop(value.m, MS))
                      deep == /\ key \in DOMAIN merged /\ merged[key].t = "dict"
                              /\ (MS \in DOMAIN value.m => value.m[MS] = Str("deep_merge"))
                      inner == ItemsAfter(MergeDictionary(EmptyMap, merged[key]).val,
                                          popped.m, KeysOf(popped.m))
                      left == Put(items, key, IF deep THEN Dict(inner.m) ELSE popped)
                  IN  IF step.ok THEN ItemsAfter(step.val, left, Tail(keys))
                      ELSE Left(FALSE, left)

DictionaryAfter(merged, frag) ==
    IF frag.t = "dict" THEN Dict(ItemsAfter(merged, frag.m, KeysOf(frag.m)).m) ELSE frag

-----------------------------------------------------------------------------
(* The fragments the merge is checked on: a key x whose value is a scalar, *)
(* None or a mapping nested up to three levels deep, every nested mapping  *)
(* with or without a directive (a valid one or an unknown one).            *)

MaxVal == 2

Scalars == {None} \cup {Val(n) : n \in 1..MaxVal}
DirectiveValues == {Str(VALID_MERGE_STRATEGIES[i]) : i \in 1..3} \cup {Str("bogus")}
MapsOver(keys, values) == UNION {[D -> values] : D \in SUBSET keys}
WithDirective(maps) == maps \cup {Put(m, MS, d) : m \in maps, d \in DirectiveValues}

LeafDicts == WithDirective(MapsOver({"a"}, Scalars))
MidDicts == WithDirective(MapsOver({"a"}, Scalars \cup {Dict(m) : m \in LeafDicts}))
TopDicts == MapsOver({"x"}, Scalars \cup {Dict(m) : m \in MidDicts})

(* The fragments of the documented examples of the three strategies.       *)
ExampleA == Dict("x" :> Dict("a" :> Val(1)))
ExampleAB == Dict("x" :> Dict(("a" :> Val(1)) @@ ("b" :> Val(2))))
ExampleB == Dict("x" :> Dict("b" :> Val(2)))
ExampleRemove == Dict("x" :> Dict(MS :> Str("remove")))
ExampleReplace == Dict("x" :> Dict((MS :> Str("replace")) @@ ("c" :> Val(3))))
ExampleFragments == {ExampleA, ExampleAB, ExampleB, ExampleRemove, ExampleReplace}

Fragments == {Dict(m) : m \in TopDicts}
                 \cup {Dict(Put(m, MS, Str("replace"))) : m \in MapsOver({"x"}, Scalars)}
                 \cup ExampleFragments

-----------------------------------------------------------------------------
(* The merge as the code runs it: a call starts from an empty accumulator  *)
(* and merges one fragment per iteration of the outer loop; merged_args is *)
(* what the call returns if the list ends here.                            *)

MergeInit ==
    /\ merged_args = Ok(EmptyMap)
    /\ merged_before = EmptyMap
    /\ dictionary = None
    /\ dictionary_after = None
    /\ removed_before = {}

MergeCall ==
    /\ dictionary # None
    /\ merged_args' = Ok(EmptyMap)
    /\ merged_before' = EmptyMap
    /\ dictionary' = None
    /\ dictionary_after' = None
    /\ removed_before' = {}
    /\ UNCHANGED <<containerVars, routeVars, metaVars>>

(* The keys the last fragment made the loop pop from the accumulator.      *)
Removed ==
    IF dictionary = None \/ ~merged_args.ok THEN {}
    ELSE {key \in DOMAIN dictionary.m :
            /\ key \in DOMAIN merged_before /\ merged_before[key].t = "dict"
            /\ dictionary.m[key].t = "dict" /\ MS \in DOMAIN dictionary.m[key].m
            /\ dictionary.m[key].m[MS] = Str("remove")}

MergeFragment(frag) ==
    /\ merged_args.ok
    /\ merged_before' = merged_args.val
    /\ dictionary' = frag
    /\ merged_args' = MergeDictionary(merged_args.val, frag)
    /\ dictionary_after' = DictionaryAfter(merged_args.val, frag)
    /\ removed_before' = removed_before \cup Removed
    /\ UNCHANGED <<containerVars, routeVars, metaVars>>

MergeNext ==
    \/ MergeCall
    \/ \E frag \in Fragments : MergeFragment(frag)

-----------------------------------------------------------------------------
(* core/constants.py                                                        *)

(* The common allow-list with the two keys of the other transport.        *)
ALLOWED_COMMON_PARAMS_Httpx ==
    <<"url", "headers", "cookies", "auth", "timeout", "allow_redirects",
      "proxies", "verify", "stream", "cert", "follow_redirects", "extensions">>

ALLOWED_COMMON_PARAMS ==
    <<"url", "headers", "cookies", "auth", "timeout", "allow_redirects",
      "proxies", "verify", "stream", "cert">>

ALLOWED_METHOD_PARAMS ==
    [GET |-> <<"params">>,
     POST |-> <<"data", "json", "files">>,
     PUT |-> <<"data", "json", "files">>,
     DELETE |-> <<>>,
     PATCH |-> <<"data", "json", "files">>,
     OPTIONS |-> <<"params">>,
     HEAD |-> <<"params">>]

VALID_HOOK_SCENARIOS == <<"route", "method", "scenario">>

Range(seq) == {seq[i] : i \in DOMAIN seq}

(* The verbs of the public methods get() .. delete(), and str.upper on them *)
Verbs == {"get", "options", "head", "post", "put", "patch", "delete"}
upper(method) ==
    CASE method = "get" -> "GET"
      [] method = "options" -> "OPTIONS"
      [] method = "head" -> "HEAD"
      [] method = "post" -> "POST"
      [] method = "put" -> "PUT"
      [] method = "patch" -> "PATCH"
      [] method = "delete" -> "DELETE"

-----------------------------------------------------------------------------
(* A derived route class.  An override (the route method, a verb method or  *)
(* a scenario method) is given by the number of parameters it declares,    *)
(* the set_after_hooks calls its body makes and the fragment it produces:  *)
(* its return value when it declares no parameter, what it assigns to the  *)
(* container it is given when it declares one.  ret is what the call       *)
(* returns: the fragment when the override declares no parameter.          *)

Override(arity, regs, frag) ==
    [arity |-> arity, regs |-> regs, frag |-> frag, ret |-> IF arity = 0 THEN frag ELSE None]
Returning(override, value) == [override EXCEPT !.ret = value]
Registration(scope, hooks) == [scope |-> scope, hooks |-> hooks]
Hook(layer, n, raises) == [id |-> <<layer, n>>, callable |-> TRUE, raises |-> raises]
NotCallable == [id |-> <<"none", 0>>, callable |-> FALSE, raises |-> FALSE]

(* AttributeDictionary.__init__ / _wrap: a dict is stored as a container,  *)
(* at every depth.                                                         *)
(* _wrap turning the mapping itself into a container and leaving the       *)
(* mappings inside it as they are.                                         *)
wrap_TopLevel(value) ==
    IF value.t = "dict" THEN AttributeDictionary(value.m) ELSE value

RECURSIVE wrap(_)
wrap(value) ==
    IF value.t = "dict"
    THEN AttributeDictionary([k \in DOMAIN value.m |-> wrap(value.m[k])])
    ELSE value

(* AttributeDictionary.__getattr__ along a chain of names, c.n1.n2...: a   *)
(* name that is not in _data is stored with a new empty container, which   *)
(* is returned.  A value that is no container has no such attribute.       *)
(* `now` is the object after the reads.                                    *)
Touched(res, now) == [res |-> res, now |-> now]
RECURSIVE getattr(_, _)
getattr(value, names) ==
    IF names = <<>> THEN Touched(Ok(value), value)
    ELSE IF value.t # "ad" THEN Touched(Raise("AttributeError"), value)
    ELSE LET name == Head(names)
             data == IF name \in DOMAIN value.m THEN value.m
                     ELSE Put(value.m, name, AttributeDictionary(EmptyMap))
             sub == getattr(data[name], Tail(names))
         IN  Touched(sub.res, AttributeDictionary(Put(data, name, sub.now)))

(* setattr losing the levels it creates on the way: a new container is     *)
(* handed out for an unset name and not stored.                            *)
RECURSIVE setattr_LevelsNotStored(_, _, _, _)
setattr_LevelsNotStored(target, names, name, value) ==
    IF target.t # "ad" THEN Touched(Raise("AttributeError"), target)
    ELSE IF names = <<>>
         THEN Touched(Ok(None), AttributeDictionary(Put(target.m, name, wrap(value))))
    ELSE LET first == Head(names)
         IN  IF first \notin DOMAIN target.m THEN Touched(Ok(None), target)
             ELSE LET sub == setattr_LevelsNotStored(target.m[first], Tail(names), name, value)
                  IN  Touched(sub.res, AttributeDictionary(Put(target.m, first, sub.now)))

(* AttributeDictionary.__setattr__ at the end of a chain, c.n1.n2.name =   *)
(* value, and __setitem__, c[key] = value: the value is stored wrapped.    *)
RECURSIVE setattr(_, _, _, _)
setattr(target, names, name, value) ==
    IF target.t # "ad" THEN Touched(Raise("AttributeError"), target)
    ELSE IF names = <<>>
         THEN Touched(Ok(None), AttributeDictionary(Put(target.m, name, wrap(value))))
    ELSE LET first == Head(names)
             data == IF first \in DOMAIN target.m THEN target.m
                     ELSE Put(target.m, first, AttributeDictionary(EmptyMap))
             sub == setattr(data[first], Tail(names), name, value)
         IN  Touched(sub.res, AttributeDictionary(Put(data, first, sub.now)))
setitem(target, key, value) == AttributeDictionary(Put(target.m, key, wrap(value)))

(* AttributeDictionary.__contains__                                         *)
contains(target, key) == key \in DOMAIN target.m

(* A result together with the after-hook registry it leaves behind.        *)
Out(res, hooks) == [res |-> res, hooks |-> hooks]

(* BaseRoute.set_after_hooks                                                *)
set_after_hooks(hooks_map, scope, hooks) ==
    IF scope \notin Range(VALID_HOOK_SCENARIOS) THEN Raise("KeyError")
    ELSE IF \E i \in DOMAIN hooks : ~hooks[i].callable THEN Raise("TypeError")
    ELSE Ok(Put(hooks_map, scope, hooks))

(* The body of an override: its set_after_hooks calls, in order.           *)
RECURSIVE RunRegistrations(_, _)
RunRegistrations(regs, hooks_map) ==
    IF regs = <<>> THEN Out(Ok(None), hooks_map)
    ELSE LET set == set_after_hooks(hooks_map, Head(regs).scope, Head(regs).hooks)
         IN  IF set.ok THEN RunRegistrations(Tail(regs), set.val)
             ELSE Out(set, hooks_map)

(* CallOverride taking the return value of every override, whatever it     *)
(* declares.                                                               *)
CallOverride_ReturnValueAlways(route_method, body) ==
    IF ~body.res.ok THEN body
    ELSE Out(Ok(route_method.ret), body.hooks)

(* BaseRoute._invoke_with_arg_dict_conditionally: the call of the override, *)
(* whose body has run with the outcome `body`.                             *)
CallOverride(route_method, body) ==
    IF ~body.res.ok THEN body
    ELSE IF route_method.arity = 1
         THEN Out(Ok(wrap(route_method.frag)), body.hooks)
         ELSE Out(Ok(route_method.ret), body.hooks)

invoke_with_arg_dict_conditionally(route_method, hooks_map) ==
    IF route_method.arity > 1 THEN Out(Raise("TypeError"), hooks_map)
    ELSE CallOverride(route_method, RunRegistrations(route_method.regs, hooks_map))

(* BaseRoute._get_request_method: getattr(self, "__<method>__", None)       *)
get_request_method(c, method) ==
    IF method \in DOMAIN c.methods THEN c.methods[method] ELSE None

(* The callable a scenario binding stands for.                              *)
ScenarioCallable(c, bound) ==
    IF bound.owner = "route" THEN c.scenarios[bound.name]
    ELSE c.scenario_groups[bound.owner].scenarios[bound.name]

(* MergeLayers with the scenario fragment merged below the verb fragment.  *)
MergeLayers_ScenarioBelowMethod(route_attribute, method_attribute, r3, kwargs) ==
    IF ~r3.res.ok THEN r3
    ELSE Out(merge_request_args(<<route_attribute, r3.res.val, method_attribute, Dict(kwargs)>>),
             r3.hooks)

(* BaseRoute._get_request_args, from the cleared registry on: the route   *)
(* override, then the verb override, then the bound scenario, then the     *)
(* merge of the three fragments and the keyword arguments.  r1, r2 and r3  *)
(* are the outcomes of the three invocations.                              *)
MergeLayers(route_attribute, method_attribute, r3, kwargs) ==
    IF ~r3.res.ok THEN r3
    ELSE Out(merge_request_args(<<route_attribute, method_attribute, r3.res.val, Dict(kwargs)>>),
             r3.hooks)

ScenarioLayer(c, bound, route_attribute, r2, kwargs) ==
    IF ~r2.res.ok THEN r2
    ELSE MergeLayers(route_attribute, r2.res.val,
                     IF bound = None THEN Out(Ok(Dict(EmptyMap)), r2.hooks)
                     ELSE invoke_with_arg_dict_conditionally(ScenarioCallable(c, bound), r2.hooks),
                     kwargs)

MethodLayer(c, bound, method, r1, kwargs) ==
    IF ~r1.res.ok THEN r1
    ELSE ScenarioLayer(c, bound, r1.res.val,
                       IF get_request_method(c, method) = None
                       THEN Out(Ok(Dict(EmptyMap)), r1.hooks)
                       ELSE invoke_with_arg_dict_conditionally(get_request_method(c, method),
                                                               r1.hooks),
                       kwargs)

(* The registry a composition starts from when it keeps what the earlier  *)
(* request registered.                                                     *)
ClearedHooks_KeptFromEarlier == after_hooks

(* self._after_hooks = {}                                                  *)
ClearedHooks == EmptyMap

get_request_args(c, bound, method, kwargs) ==
    MethodLayer(c, bound, method, invoke_with_arg_dict_conditionally(c.route, ClearedHooks),
                kwargs)

(* A format string as str.format reads it: runs of literal text and        *)
(* replacement fields, in order; given for the endpoints of the model.     *)
Lit(text) == [lit |-> text, field |-> ""]
Field(name) == [lit |-> "", field |-> name]
ParseFormat(template) ==
    CASE template = "/users/{id}" -> <<Lit("/users/"), Field("id")>>
      [] template = "/users/{id}/posts/{post}" ->
             <<Lit("/users/"), Field("id"), Lit("/posts/"), Field("post")>>
      [] OTHER -> <<Lit(template)>>

(* str(value), which str.format applies to the value of a field.           *)
str(value) ==
    CASE value.t = "val" -> ToString(value.v)
      [] value.t = "str" -> value.s
      [] OTHER -> "None"

(* A replacement field left in the text as it stands.                      *)
Replace_FieldLeft(part, kwargs) ==
    IF part.field = "" THEN part.lit ELSE "{" \o part.field \o "}"

(* str.format with keyword arguments: the literal text is kept, a field is *)
(* replaced by the value under its name, KeyError when there is none.      *)
Replace(part, kwargs) ==
    IF part.field = "" THEN part.lit ELSE str(kwargs[part.field])
RECURSIVE format(_, _)
format(parts, kwargs) ==
    IF parts = <<>> THEN Ok("")
    ELSE IF Head(parts).field # "" /\ Head(parts).field \notin DOMAIN kwargs
         THEN Raise("KeyError")
    ELSE LET rest == format(Tail(parts), kwargs)
         IN  IF rest.ok THEN Ok(Replace(Head(parts), kwargs) \o rest.val) ELSE rest

(* request_url = self.BASE_URL + self.endpoint;                            *)
(* request_url.format with url_placeholders as keyword arguments:          *)
(* TypeError when url_placeholders is not a mapping.  BASE_URL is          *)
(* Config.BASE_URL, taken to hold no replacement field.                    *)
BASE_URL == "https://host"
Url(endpoint, url_placeholders) ==
    IF url_placeholders.t \notin {"dict", "ad"} THEN Raise("TypeError")
    ELSE LET formatted == format(<<Lit(BASE_URL)>> \o ParseFormat(endpoint), url_placeholders.m)
         IN  IF formatted.ok THEN Ok(Str(formatted.val)) ELSE formatted

(* ParseRequestArgs validating against the verb's own list only when the  *)
(* verb has one, so that DELETE accepts every key.                         *)
ParseRequestArgs_DeleteUnchecked(c, method, got) ==
    IF ~got.res.ok THEN got
    ELSE
    LET merged == got.res.val
        url_placeholders == IF "url_placeholders" \in DOMAIN merged
                            THEN merged["url_placeholders"] ELSE Dict(EmptyMap)
        popped == Pop(merged, "url_placeholders")
        request_url == Url(c.endpoint, url_placeholders)
        with_url == IF "url" \in DOMAIN popped \/ ~request_url.ok THEN popped
                    ELSE Put(popped, "url", request_url.val)
        allowed_request_params ==
            Range(ALLOWED_COMMON_PARAMS) \cup Range(ALLOWED_METHOD_PARAMS[upper(method)])
        invalid_args == DOMAIN with_url \ allowed_request_params
    IN  IF "url" \notin DOMAIN popped /\ c.endpoint = ""
        THEN Out(Raise("AttributeError"), got.hooks)
        ELSE IF "url" \notin DOMAIN popped /\ ~request_url.ok
        THEN Out(request_url, got.hooks)
        ELSE IF DOMAIN with_url \subseteq allowed_request_params
                    \/ ALLOWED_METHOD_PARAMS[upper(method)] = <<>>
             THEN Out(Ok(with_url), got.hooks)
             ELSE Out(RaiseWith("KeyError", [keys |-> invalid_args, method |-> method]),
                      got.hooks)

(* BaseRoute.get_parsed_request_args, from the merged arguments `got` on:  *)
(* url_placeholders is popped, url is filled in, the keys are validated.   *)
ParseRequestArgs(c, method, got) ==
    IF ~got.res.ok THEN got
    ELSE
    LET merged == got.res.val
        url_placeholders == IF "url_placeholders" \in DOMAIN merged
                            THEN merged["url_placeholders"] ELSE Dict(EmptyMap)
        popped == Pop(merged, "url_placeholders")
        request_url == Url(c.endpoint, url_placeholders)
        with_url == IF "url" \in DOMAIN popped \/ ~request_url.ok THEN popped
                    ELSE Put(popped, "url", request_url.val)
        allowed_request_params ==
            Range(ALLOWED_COMMON_PARAMS) \cup Range(ALLOWED_METHOD_PARAMS[upper(method)])
        invalid_args == DOMAIN with_url \ allowed_request_params
    IN  IF "url" \notin DOMAIN popped /\ c.endpoint = ""
        THEN Out(Raise("AttributeError"), got.hooks)
        ELSE IF "url" \notin DOMAIN popped /\ ~request_url.ok
        THEN Out(request_url, got.hooks)
        ELSE IF DOMAIN with_url \subseteq allowed_request_params
             THEN Out(Ok(with_url), got.hooks)
             ELSE Out(RaiseWith("KeyError", [keys |-> invalid_args, method |-> method]),
                      got.hooks)

get_parsed_request_args(c, bound, method, kwargs) ==
    ParseRequestArgs(c, method, get_request_args(c, bound, method, kwargs))

(* Python truth of a value: None, 0, "" and an empty mapping are false.    *)
Truthy(value) ==
    /\ value # None
    /\ value.t = "val" => value.v # 0
    /\ value.t = "str" => value.s # ""
    /\ value.t \in {"dict", "ad"} => DOMAIN value.m # {}

(* callable(x): an override is callable, a value is not.                   *)
IsCallable(attribute) == "arity" \in DOMAIN attribute

(* An entry of scenario_groups that is a class, with the attributes its    *)
(* instances have; any other entry is a value.                             *)
GroupType(attributes) == [t |-> "type", scenarios |-> attributes]

(* BaseRoute._get_scenario_group: the three checks; when they pass the     *)
(* group is instantiated and the instance is returned.                     *)
get_scenario_group(c, group_name) ==
    IF c.scenario_groups = None \/ DOMAIN c.scenario_groups = {} THEN Raise("AttributeError")
    ELSE LET scenario_group == IF group_name \in DOMAIN c.scenario_groups
                               THEN c.scenario_groups[group_name] ELSE None
         IN  IF ~Truthy(scenario_group) THEN Raise("KeyError")
             ELSE IF scenario_group.t # "type" THEN Raise("TypeError")
             ELSE Ok(group_name)

(* BaseRoute._execute_after_hooks: the list the call runs through, and the *)
(* hooks it gets to call: all of them, or those up to the first that       *)
(* raises.                                                                 *)
HooksOf(hooks_map, scope) == IF scope \in DOMAIN hooks_map THEN hooks_map[scope] ELSE <<>>
HookOrder(hooks_map) ==
    HooksOf(hooks_map, "route") \o HooksOf(hooks_map, "method") \o HooksOf(hooks_map, "scenario")
Raising(hooks) == {i \in DOMAIN hooks : hooks[i].raises}
Called(hooks) ==
    IF Raising(hooks) = {} THEN hooks
    ELSE SubSeq(hooks, 1, CHOOSE i \in Raising(hooks) : \A j \in Raising(hooks) : i <= j)

-----------------------------------------------------------------------------
(* core/base_route.py: the route built on Meta and Hook.  An override      *)
(* there takes (meta, hooks): its body adds hooks and assigns attributes   *)
(* of the metadata.  A hook function has a body that assigns keys of       *)
(* meta.params; it is a plain function or a coroutine function (async      *)
(* def), and it may raise.                                                 *)

HookFunction(name, async, sets, raises) ==
    [id |-> name, async |-> async, sets |-> sets, raises |-> raises]
Added(event, hook_func) == [event |-> event, hook_func |-> hook_func]
Body(adds, sets) == [arity |-> 2, adds |-> adds, sets |-> sets]

(* Hook.__init__                                                            *)
NewHook == [request_hooks |-> <<>>, response_hooks |-> <<>>]

(* Hook.add                                                                 *)
add(hooks, event, hook_func) ==
    IF event = "request"
    THEN Ok([hooks EXCEPT !.request_hooks = Append(@, hook_func)])
    ELSE IF event = "response"
    THEN Ok([hooks EXCEPT !.response_hooks = Append(@, hook_func)])
    ELSE Raise("ValueError")

(* Meta.__init__ with no argument: the mapping attributes are empty boxes, *)
(* the others None.                                                        *)
MetaAttributes == <<"params", "headers", "timeout", "json">>
NewMeta ==
    [params |-> Dict(EmptyMap), headers |-> Dict(EmptyMap), timeout |-> None,
     json |-> Dict(EmptyMap)]

(* Meta.copy: a deep copy, so that the copy shares nothing with the        *)
(* original.                                                               *)
copy(meta) == [a \in DOMAIN meta |-> meta[a]]

(* The assignments of a body: meta.<attribute>.<key> = value for a mapping *)
(* in `sets`, meta.<attribute> = value for any other value.  Assigning a   *)
(* key of an attribute that holds a scalar raises.                         *)
AssignFails(meta, sets) ==
    \E a \in DOMAIN sets : sets[a].t = "dict" /\ meta[a].t # "dict"
Assign(meta, sets) ==
    [a \in DOMAIN meta |->
        IF a \notin DOMAIN sets THEN meta[a]
        ELSE IF sets[a].t = "dict"
             THEN Dict([k \in DOMAIN meta[a].m \cup DOMAIN sets[a].m |->
                           IF k \in DOMAIN sets[a].m THEN sets[a].m[k] ELSE meta[a].m[k]])
             ELSE sets[a]]

(* What an invocation holds while it composes: the outcome so far, its     *)
(* metadata and its Hook object.                                           *)
Composing(res, meta, hooks) == [res |-> res, meta |-> meta, hooks |-> hooks]

(* The hooks.add calls of a body, in order.                                *)
RECURSIVE RunAdds(_, _)
RunAdds(adds, hooks) ==
    IF adds = <<>> THEN Ok(hooks)
    ELSE LET added == add(hooks, Head(adds).event, Head(adds).hook_func)
         IN  IF added.ok THEN RunAdds(Tail(adds), added.val) ELSE added

(* The call of an override with (meta, hooks).                              *)
RunBody(body, meta, hooks) ==
    LET added == RunAdds(body.adds, hooks)
    IN  IF ~added.ok THEN Composing(added, meta, hooks)
        ELSE IF AssignFails(meta, body.sets)
             THEN Composing(Raise("AttributeError"), meta, added.val)
        ELSE Composing(Ok(None), Assign(meta, body.sets), added.val)

(* ScenarioManager.prepare_method_meta_and_hooks: the verb override of the *)
(* class, or BaseRoute's own, which raises NotImplementedError.            *)
method_map ==
    [GET |-> "get", POST |-> "post", PUT |-> "put", DELETE |-> "delete", PATCH |-> "patch",
     HEAD |-> "head", OPTIONS |-> "options"]
prepare_method_meta_and_hooks(c, method, st) ==
    IF ~st.res.ok THEN st
    ELSE IF method \notin DOMAIN method_map
         THEN Composing(Raise("ValueError"), st.meta, st.hooks)
    ELSE IF method_map[method] \notin DOMAIN c.methods
         THEN Composing(Raise("NotImplementedError"), st.meta, st.hooks)
    ELSE RunBody(c.methods[method_map[method]], copy(st.meta), st.hooks)

(* ScenarioManager.apply_scenario: getattr(route, scenario_name) and the   *)
(* call of what it returns.                                                *)
apply_scenario(c, scenario_name, st) ==
    IF ~st.res.ok THEN st
    ELSE IF scenario_name \notin DOMAIN c.scenarios
         THEN Composing(Raise("AttributeError"), st.meta, st.hooks)
    ELSE IF ~IsCallable(c.scenarios[scenario_name])
         THEN Composing(Raise("TypeError"), st.meta, st.hooks)
    ELSE RunBody(c.scenarios[scenario_name], copy(st.meta), st.hooks)

(* One call of a hook function, as Hook.apply_hooks makes it.              *)
(* Calling a coroutine function returns a coroutine and runs nothing of    *)
(* its body; apply_hooks drops the coroutine.                              *)
HookCall(hook, event, args, ran) ==
    [hook |-> hook.id, event |-> event, args |-> args, ran |-> ran]
Runs(hook) == ~hook.async

(* Hook.apply_hooks for "request": the hooks are called in the order of    *)
(* the list with (method, url, meta); a hook that runs changes meta in     *)
(* place, one that raises ends the loop.  `log` collects the calls.        *)
RECURSIVE ApplyRequestHooks(_, _, _, _, _)
ApplyRequestHooks(hooks, method, url, meta, log) ==
    IF hooks = <<>> THEN [res |-> Ok(None), meta |-> meta, log |-> log]
    ELSE LET hook == Head(hooks)
             called == Append(log, HookCall(hook, "request", <<method, url, meta>>, Runs(hook)))
         IN  IF ~Runs(hook) THEN ApplyRequestHooks(Tail(hooks), method, url, meta, called)
             ELSE IF hook.raises
                  THEN [res |-> Raise("HookError"), meta |-> meta, log |-> called]
             ELSE IF AssignFails(meta, [params |-> Dict(hook.sets)])
                  THEN [res |-> Raise("AttributeError"), meta |-> meta, log |-> called]
             ELSE ApplyRequestHooks(Tail(hooks), method, url,
                                    Assign(meta, [params |-> Dict(hook.sets)]), called)

(* Hook.apply_hooks for "response": the hooks are called with (response).  *)
RECURSIVE ApplyResponseHooks(_, _, _)
ApplyResponseHooks(hooks, resp, log) ==
    IF hooks = <<>> THEN [res |-> Ok(None), log |-> log]
    ELSE LET hook == Head(hooks)
             called == Append(log, HookCall(hook, "response", <<resp>>, Runs(hook)))
         IN  IF Runs(hook) /\ hook.raises THEN [res |-> Raise("HookError"), log |-> called]
             ELSE ApplyResponseHooks(Tail(hooks), resp, called)

(* HttpxArgsHandler.convert: the attributes that are not None, a mapping   *)
(* attribute only when it is not empty, json only for POST, PUT and PATCH. *)
(* A true attribute that should be a box and is not has no to_dict, and    *)
(* the conversion raises.                                                  *)
ConvertFails(meta) == \E a \in {"params", "headers"} : Truthy(meta[a]) /\ meta[a].t # "dict"
HttpxArgs(meta, method) ==
    LET given == {a \in {"params", "headers"} : Truthy(meta[a])}
                     \cup {a \in {"timeout"} : meta[a] # None}
                     \cup {a \in {"json"} : Truthy(meta[a]) /\ method \in {"POST", "PUT", "PATCH"}}
    IN  [a \in given |-> meta[a]]

(* to_httpx_args letting the MetaError of the conversion through.          *)
to_httpx_args_Unwrapped(meta, method) ==
    IF ConvertFails(meta) THEN RaiseWith("MetaError", Str("Failed to convert to httpx args"))
    ELSE Ok(HttpxArgs(meta, method))

(* Meta.to_httpx_args as BaseRoute._invoke uses it: any exception becomes  *)
(* a RuntimeError whose message starts with FailedToPrepare.               *)
FailedToPrepare == Str("Failed to prepare httpx arguments")
to_httpx_args(meta, method) ==
    IF ConvertFails(meta) THEN RaiseWith("RuntimeError", FailedToPrepare)
    ELSE Ok(HttpxArgs(meta, method))

(* BaseRoute._invoke / _async_invoke up to the transport call.  The result *)
(* carries the metadata, the Hook object, the calls of the request hooks   *)
(* and the transport arguments.                                            *)
Invoking(res, meta, hooks, log) == [res |-> res, meta |-> meta, hooks |-> hooks, log |-> log]

(* ConvertArgs converting the metadata as it was before the request hooks  *)
(* were applied.                                                           *)
ConvertArgs_BeforeHooks(method, st, applied) ==
    IF ~applied.res.ok THEN Invoking(applied.res, applied.meta, st.hooks, applied.log)
    ELSE Invoking(to_httpx_args(st.meta, method), applied.meta, st.hooks, applied.log)

(* method_meta.to_httpx_args(method) on the metadata the request hooks     *)
(* were applied to.                                                        *)
ConvertArgs(method, st, applied) ==
    IF ~applied.res.ok THEN Invoking(applied.res, applied.meta, st.hooks, applied.log)
    ELSE Invoking(to_httpx_args(applied.meta, method), applied.meta, st.hooks, applied.log)

RequestHooks(c, method, st) ==
    IF ~st.res.ok THEN Invoking(st.res, st.meta, st.hooks, <<>>)
    ELSE ConvertArgs(method, st,
                     ApplyRequestHooks(st.hooks.request_hooks, method, c.endpoint, st.meta, <<>>))

WithScenario(c, method, scenario_name, st) ==
    RequestHooks(c, method,
                 IF Truthy(scenario_name) THEN apply_scenario(c, scenario_name.s, st) ELSE st)

invoke(c, method, scenario_name) ==
    WithScenario(c, method, scenario_name,
                 prepare_method_meta_and_hooks(c, method,
                                               RunBody(c.route, copy(NewMeta), NewHook)))

-----------------------------------------------------------------------------
(* The route classes and calls the model runs.                              *)

Callers == {1, 2}

LayerOf == [route |-> 1, method |-> 2, scenario |-> 3, call |-> 4]
NoRegs == <<>>
Plain(frag) == Override(0, NoRegs, frag)

(* Layering: every layer contributes params sub-keys and/or a scalar key,  *)
(* each with a value that names the layer.                                 *)
SubKeys == {"id", "name", "extra"}
LayerFrags(layer) ==
    LET v == Val(LayerOf[layer])
    IN  {Dict("params" :> Dict(m)) : m \in MapsOver(SubKeys, {v})}
            \cup {Dict(EmptyMap), Dict("timeout" :> v)}
LayeringClasses ==
    {[family |-> "layering", endpoint |-> "/pong", scenario_groups |-> None,
      route |-> Plain(fr), methods |-> ms, scenarios |-> ("sc" :> Plain(fs))] :
        fr \in LayerFrags("route"),
        ms \in {EmptyMap} \cup {("get" :> Override(1, NoRegs, fm)) : fm \in LayerFrags("method")},
        fs \in LayerFrags("scenario")}

(* Validation: a route without overrides, called with any verb and with    *)
(* up to MaxKeys keyword arguments.                                        *)
MaxKeys == 2
DescriptorKeys ==
    {"url", "headers", "cookies", "auth", "timeout", "allow_redirects", "follow_redirects",
     "proxies", "verify", "stream", "cert", "extensions", "params", "data", "json",
     "files", "content", "endpoint", "url_placeholders"}
RECURSIVE SetsUpTo(_, _)
SetsUpTo(S, n) ==
    IF n = 0 THEN {{}}
    ELSE LET smaller == SetsUpTo(S, n - 1)
         IN  smaller \cup {D \cup {k} : D \in smaller, k \in S}
KeywordArgs ==
    {[k \in D |-> IF k = "url_placeholders" THEN Dict(EmptyMap) ELSE Val(1)] :
        D \in SetsUpTo(DescriptorKeys, MaxKeys)}
ValidationClasses ==
    {[family |-> "validation", endpoint |-> e, scenario_groups |-> None,
      route |-> Plain(Dict(EmptyMap)), methods |-> EmptyMap, scenarios |-> EmptyMap] :
        e \in {"", "/pong"}}

(* Hooks: every override may register a list of its own hooks for any      *)
(* scope, a valid one or not; a hook may raise or not be callable.         *)
HookLists(layer) ==
    {<<Hook(layer, 1, FALSE)>>,
     <<Hook(layer, 1, FALSE), Hook(layer, 2, FALSE)>>,
     <<Hook(layer, 1, TRUE), Hook(layer, 2, FALSE)>>}
Registrations(layer) ==
    {NoRegs}
        \cup {<<Registration(s, hs)>> : s \in Range(VALID_HOOK_SCENARIOS), hs \in HookLists(layer)}
        \cup {<<Registration("bogus", <<Hook(layer, 1, FALSE)>>)>>,
              <<Registration(layer, <<NotCallable>>)>>}
HookClasses ==
    {[family |-> "hooks", endpoint |-> "/pong", scenario_groups |-> None,
      route |-> Override(0, rr, Dict(EmptyMap)),
      methods |-> ("get" :> Override(0, rm, Dict(EmptyMap))),
      scenarios |-> ("sc" :> Override(1, rs, Dict(EmptyMap)))] :
        rr \in Registrations("route"), rm \in Registrations("method"),
        rs \in Registrations("scenario")}

(* Failures: overrides that declare two parameters, write a reserved key,  *)
(* carry an unknown strategy or a key outside the allow-list, on a route   *)
(* with or without an endpoint; the route override registers a hook.       *)
FailingOverrides(regs) ==
    {Override(0, regs, Dict(EmptyMap)),
     Override(2, regs, Dict(EmptyMap)),
     Override(1, regs, Dict("items" :> Val(1))),
     Override(0, regs, Dict("headers" :> Dict("a" :> Val(1)))),
     Override(0, regs, Dict("headers" :> Dict(MS :> Str("bogus")))),
     Override(0, regs, Dict("endpoint" :> Val(1)))}
FailureClasses ==
    {[family |-> "failures", endpoint |-> e, scenario_groups |-> None,
      route |-> r, methods |-> ms, scenarios |-> ("sc" :> s)] :
        e \in {"", "/pong"},
        r \in FailingOverrides(<<Registration("route", <<Hook("route", 1, FALSE)>>)>>),
        ms \in {EmptyMap} \cup {("get" :> m) : m \in FailingOverrides(NoRegs)},
        s \in FailingOverrides(NoRegs)}

(* Routes built on base_route.BaseRoute.  Every override may add a request *)
(* hook and a response hook and assigns a key of meta.params; a request    *)
(* hook assigns a key of meta.params named after it.  "label" is an        *)
(* attribute of the route that is not callable.                            *)
NoHook == <<>>
RequestHook(layer, async, raises) ==
    <<Added("request", HookFunction(<<layer, "request">>, async, (layer :> Val(1)), raises))>>
ResponseHook(layer, async, raises) ==
    <<Added("response", HookFunction(<<layer, "response">>, async, EmptyMap, raises))>>
MetaBodies(layer, request_adds, response_adds) ==
    {Body(rq \o rs, [params |-> Dict((layer \o "_param") :> Val(LayerOf[layer]))]) :
        rq \in request_adds, rs \in response_adds}
MetaRoute(e, r, ms, sc) ==
    [family |-> "meta", endpoint |-> e, scenario_groups |-> None,
     route |-> r, methods |-> ms, scenarios |-> ("sc" :> sc) @@ ("label" :> Str("x"))]
MetaClasses ==
    {MetaRoute("/posts/1", r, ("get" :> m), sc) :
        r \in MetaBodies("route",
                         {NoHook, RequestHook("route", FALSE, FALSE),
                          RequestHook("route", TRUE, FALSE), RequestHook("route", FALSE, TRUE)},
                         {NoHook, ResponseHook("route", FALSE, FALSE),
                          ResponseHook("route", TRUE, FALSE), ResponseHook("route", FALSE, TRUE)}),
        m \in MetaBodies("method",
                         {NoHook, RequestHook("method", FALSE, FALSE),
                          RequestHook("method", TRUE, FALSE)},
                         {NoHook, ResponseHook("method", FALSE, FALSE)}),
        sc \in MetaBodies("scenario",
                          {NoHook, RequestHook("scenario", FALSE, FALSE)},
                          {NoHook, ResponseHook("scenario", TRUE, FALSE)})}

(* Routes on which composing fails: a hook added for an event that does    *)
(* not exist, and meta.params assigned a number.                           *)
MetaFailureClasses ==
    {MetaRoute("/posts/1", r, ("get" :> m), Body(NoHook, EmptyMap)) :
        r \in {Body(RequestHook("route", FALSE, FALSE), EmptyMap),
               Body(RequestHook("route", TRUE, FALSE), EmptyMap),
               Body(<<Added("invalid_event", HookFunction(<<"route", "invalid">>, FALSE,
                                                         EmptyMap, FALSE))>>, EmptyMap)},
        m \in {Body(ResponseHook("method", FALSE, FALSE), EmptyMap),
               Body(ResponseHook("method", FALSE, FALSE), [params |-> Val(5)])}}

(* Routes used by two callers at a time (two threads; on a route built on *)
(* base_route.BaseRoute two asynchronous calls as well).  No hook raises   *)
(* and every override registers for its own scope.                         *)
OverlapClasses ==
    {[family |-> "overlap", endpoint |-> "/pong", scenario_groups |-> None,
      route |-> Override(0, <<Registration("route", <<Hook("route", 1, FALSE)>>)>>,
                         Dict(EmptyMap)),
      methods |-> ("get" :> Override(0, <<Registration("method", hs)>>, Dict(EmptyMap))),
      scenarios |-> ("sc" :> Override(1, <<Registration("scenario",
                                                        <<Hook("scenario", 1, FALSE)>>)>>,
                                      Dict(EmptyMap)))] :
        hs \in {<<Hook("method", 1, FALSE)>>,
                <<Hook("method", 1, FALSE), Hook("method", 2, FALSE)>>}}
MetaOverlapClasses ==
    {[MetaRoute("/posts/1", r, ("get" :> m) @@ ("post" :> Body(NoHook, EmptyMap)), sc)
          EXCEPT !.family = "meta_overlap"] :
        r \in MetaBodies("route", {RequestHook("route", FALSE, FALSE)},
                         {ResponseHook("route", FALSE, FALSE)}),
        m \in MetaBodies("method", {RequestHook("method", FALSE, FALSE)},
                         {ResponseHook("method", FALSE, FALSE)}),
        sc \in MetaBodies("scenario", {NoHook}, {ResponseHook("scenario", FALSE, FALSE)})}

(* Scenario groups: a route without the mapping, with an empty one, and    *)
(* with one that holds a class ("grp", whose instances have the scenario   *)
(* "sc" and the attribute "label", not callable) and entries that are no   *)
(* class: a string, None.  The route has a scenario "sc" of its own and    *)
(* an attribute "label"; its route override registers a hook.              *)
ScenarioGroups ==
    ("grp" :> GroupType(("sc" :> Plain(Dict("timeout" :> Val(2))))
                            @@ ("label" :> Str("x"))))
        @@ ("text" :> Str("x")) @@ ("none" :> None)
GroupsClasses ==
    {[family |-> "groups", endpoint |-> "/pong", scenario_groups |-> g,
      route |-> Override(0, <<Registration("route", <<Hook("route", 1, FALSE)>>)>>,
                         Dict(EmptyMap)),
      methods |-> EmptyMap,
      scenarios |-> ("sc" :> Plain(Dict("timeout" :> Val(1)))) @@ ("label" :> Str("x"))] :
        g \in {None, EmptyMap, ScenarioGroups}}
GroupNames == {"grp", "text", "none", "absent"}

(* Arity: the override of each layer declares no parameter, one or two,    *)
(* registers a hook for its layer and contributes one key of its own: by   *)
(* its return value, or by assigning it in the container, in which case it *)
(* returns another value for the key.                                      *)
LayerKey == [route |-> "timeout", method |-> "verify", scenario |-> "cert"]
ArityOverrides(layer) ==
    LET regs == <<Registration(layer, <<Hook(layer, 1, FALSE)>>)>>
        frag == Dict(LayerKey[layer] :> Val(1))
    IN  {Override(0, regs, frag),
         Returning(Override(1, regs, frag), Dict(LayerKey[layer] :> Val(2))),
         Override(2, regs, frag)}
ArityClasses ==
    {[family |-> "arity", endpoint |-> "/pong", scenario_groups |-> None,
      route |-> r, methods |-> ms, scenarios |-> ("sc" :> sc)] :
        r \in ArityOverrides("route"),
        ms \in {EmptyMap} \cup {("get" :> m) : m \in ArityOverrides("method")},
        sc \in ArityOverrides("scenario")}

(* Urls: routes whose endpoint has no, one or two placeholders, or is      *)
(* empty, called with or without url_placeholders (one that lacks a name,  *)
(* one with a name too many and one that is no mapping among them) and     *)
(* with or without a url of the caller's.                                  *)
Endpoints == {"", "/pong", "/users/{id}", "/users/{id}/posts/{post}"}
UrlClasses ==
    {[family |-> "urls", endpoint |-> e, scenario_groups |-> None,
      route |-> Plain(Dict(EmptyMap)), methods |-> EmptyMap, scenarios |-> EmptyMap] :
        e \in Endpoints}
Placeholders ==
    {Val(1), Dict(EmptyMap), Dict("id" :> Val(1)), Dict("id" :> Str("me")),
     Dict(("id" :> Val(2)) @@ ("post" :> Val(1))),
     Dict(("id" :> Val(1)) @@ ("post" :> Str("a")) @@ ("extra" :> Val(2)))}
UrlKeywordArgs ==
    LET urls == {EmptyMap, ("url" :> Str("https://other"))}
        placeholders == {EmptyMap} \cup {("url_placeholders" :> p) : p \in Placeholders}
    IN  {u @@ p @@ t : u \in urls, p \in placeholders,
                       t \in {EmptyMap, ("timeout" :> Val(1))}}

IsMetaRoute(c) == c.family \in {"meta", "meta_overlap"}

RouteClasses ==
    LayeringClasses \cup ValidationClasses \cup HookClasses \cup FailureClasses
        \cup MetaClasses \cup MetaFailureClasses \cup OverlapClasses \cup MetaOverlapClasses
        \cup GroupsClasses \cup ArityClasses \cup UrlClasses

(* The verb calls made on a route of class c: (verb, keyword arguments).   *)
CallsOn(c) ==
    CASE c.family = "layering" -> {<<"get", f.m>> : f \in LayerFrags("call")}
      [] c.family = "validation" -> Verbs \X KeywordArgs
      [] c.family \in {"hooks", "overlap"} -> {<<"get", EmptyMap>>, <<"post", EmptyMap>>}
      [] c.family = "failures" -> {<<"get", EmptyMap>>, <<"get", ("url" :> Val(1))>>}
      [] c.family = "groups" -> {<<"get", EmptyMap>>, <<"post", EmptyMap>>}
      [] c.family = "arity" -> {<<"get", EmptyMap>>}
      [] c.family = "urls" -> {"get", "delete"} \X UrlKeywordArgs
      [] OTHER -> {}

(* The for_scenario calls made on it: (scenario name, group name).         *)
ScenariosOn(c) ==
    CASE c.family \in {"validation", "urls"} \/ IsMetaRoute(c) -> {}
      [] c.family = "failures" -> {<<"sc", None>>, <<"missing", None>>, <<"sc", Str("grp")>>}
      [] c.family = "groups" ->
             {"sc", "label", "missing", ""} \X ({None, Str("")} \cup {Str(g) : g \in GroupNames})
      [] OTHER -> {<<"sc", None>>}

(* The calls made on a route that has served a request already, and the    *)
(* callers that use the route.                                             *)
LaterCallsOn(c) == IF c.family \in {"validation", "layering", "urls"} THEN {} ELSE CallsOn(c)
CallersOn(c) == IF c.family \in {"overlap", "meta_overlap"} THEN Callers ELSE {1}

(* On a route built on base_route.BaseRoute: the verb calls, (verb, path),  *)
(* and the names given to for_scenario.                                    *)
InvocationsOn(c) ==
    IF IsMetaRoute(c) THEN {<<"get", "sync">>, <<"get", "async">>, <<"post", "sync">>} ELSE {}
ScenarioNamesOn(c) ==
    IF c.family = "meta" THEN {"sc", "label", "missing", ""}
    ELSE IF c.family = "meta_overlap" THEN {"sc", ""} ELSE {}
(* The asynchronous verb calls whose coroutine is made first and started   *)
(* later, on a route used by several callers.                              *)
CoroutinesOn(c) ==
    IF c.family = "meta_overlap" THEN {v \in InvocationsOn(c) : v[2] = "async"} ELSE {}

Responses == {"r1", "r2"}

-----------------------------------------------------------------------------
(* The route instance and the verb calls on it.                             *)


NoCall == [method |-> "", kwargs |-> EmptyMap, bound |-> None]
NoScenarioCall == [name |-> "", group |-> None, err |-> "", instantiated |-> None]
Resting == {"idle", "done", "failed"}
NoFrame == [method_hooks |-> NewHook, httpx_args |-> EmptyMap]
NoResult == [status |-> "none", stage |-> "", err |-> "", val |-> None]
Pending(value) == [status |-> "pending", stage |-> "", err |-> "", val |-> value]
Returned(value) == [status |-> "returned", stage |-> "", err |-> "", val |-> value]
Raised(stage, error) == [status |-> "raised", stage |-> stage, err |-> error.err, val |-> error.val]

(* BaseMixin.__init__                                                       *)
RouteInit(c) ==
    /\ cls = c
    /\ scenario_method = None
    /\ current_scenario_group = None
    /\ current_scenario_name = None
    /\ for_scenario_result = NoScenarioCall
    /\ after_hooks = EmptyMap
    /\ hooks_before = EmptyMap
    /\ request_args = None
    /\ response = None
    /\ scenario = None
    /\ frame = [i \in Callers |-> NoFrame]
    /\ pc = [i \in Callers |-> "idle"]
    /\ call = [i \in Callers |-> NoCall]
    /\ result = [i \in Callers |-> NoResult]
    /\ sent = [i \in Callers |-> <<>>]
    /\ fired = [i \in Callers |-> <<>>]

-----------------------------------------------------------------------------
(* An AttributeDictionary object and the operations on it.                  *)

(* The mappings a container is constructed from, the values written to it, *)
(* the chains of names it is reached through and the names written.        *)
ContainerValues ==
    {Val(1), Dict("a" :> Val(1)), Dict("b" :> Dict("a" :> Val(2))),
     Dict("b" :> Dict("items" :> Val(2))), List(<<Dict("a" :> Val(1))>>)}
ContainerData ==
    {EmptyMap, ("a" :> Val(1)), ("a" :> Dict("b" :> Dict("a" :> Val(2)))),
     ("a" :> Val(2)) @@ ("b" :> Dict(EmptyMap)),
     ("a" :> List(<<Dict("keys" :> Val(1))>>)) @@ ("b" :> Dict("x" :> List(<<>>))),
     ("items" :> Val(1)) @@ ("keys" :> Val(2)), ("a" :> Dict("keys" :> Val(1)))}
Chains == {<<>>, <<"a">>, <<"b">>, <<"a", "b">>}
Names == {"a", "b", "items"}
MaxOps == 2

NoOperation == [op |-> "", names |-> <<>>, name |-> "", value |-> None, res |-> Ok(None), n |-> 0]
Operation(op, names, name, value, res) ==
    [op |-> op, names |-> names, name |-> name, value |-> value, res |-> res,
     n |-> operation.n + 1]

(* No container is in use.                                                 *)
ContainerIdle ==
    /\ container = AttributeDictionary(EmptyMap)
    /\ container_before = AttributeDictionary(EmptyMap)
    /\ operation = NoOperation

(* AttributeDictionary(data)                                                *)
ContainerInit ==
    \E data \in ContainerData :
        /\ container = wrap(Dict(data))
        /\ container_before = Dict(data)
        /\ operation = [NoOperation EXCEPT !.op = "init", !.value = Dict(data)]

(* c.n1.n2 read                                                             *)
GetAttribute(names) ==
    LET read == getattr(container, names)
    IN  /\ operation.n < MaxOps
        /\ container' = read.now
        /\ container_before' = container
        /\ operation' = Operation("getattr", names, "", None, read.res)
        /\ UNCHANGED <<mergeVars, routeVars, metaVars>>

(* c.n1.n2.name = value                                                     *)
SetAttribute(names, name, value) ==
    LET written == setattr(container, names, name, value)
    IN  /\ operation.n < MaxOps
        /\ container' = written.now
        /\ container_before' = container
        /\ operation' = Operation("setattr", names, name, value, written.res)
        /\ UNCHANGED <<mergeVars, routeVars, metaVars>>

(* c[key] = value                                                           *)
SetItem(key, value) ==
    /\ operation.n < MaxOps
    /\ container' = setitem(container, key, value)
    /\ container_before' = container
    /\ operation' = Operation("setitem", <<>>, key, value, Ok(None))
    /\ UNCHANGED <<mergeVars, routeVars, metaVars>>

(* c.to_dict()                                                              *)
ToDict ==
    /\ operation.n < MaxOps
    /\ container' = container
    /\ container_before' = container
    /\ operation' = Operation("to_dict", <<>>, "", None, to_dict(container.m))
    /\ UNCHANGED <<mergeVars, routeVars, metaVars>>

(* key in c                                                                 *)
Contains(key) ==
    /\ operation.n < MaxOps
    /\ container' = container
    /\ container_before' = container
    /\ operation' = Operation("contains", <<>>, key, None,
                              Ok(IF contains(container, key) THEN Val(1) ELSE Val(0)))
    /\ UNCHANGED <<mergeVars, routeVars, metaVars>>

ContainerNext ==
    \/ \E names \in Chains \ {<<>>} : GetAttribute(names)
    \/ \E names \in Chains, name \in Names, value \in ContainerValues :
          SetAttribute(names, name, value)
    \/ \E key \in Names, value \in ContainerValues : SetItem(key, value)
    \/ ToDict
    \/ \E key \in Names : Contains(key)

InitMerge ==
    /\ ContainerIdle /\ MergeInit
    /\ RouteInit(CHOOSE c \in ValidationClasses : c.endpoint = "/pong")

InitContainer ==
    /\ ContainerInit /\ MergeInit
    /\ RouteInit(CHOOSE c \in ValidationClasses : c.endpoint = "/pong")

Init == ContainerIdle /\ MergeInit /\ \E c \in RouteClasses : RouteInit(c)

(* for_scenario binding the callable only while none is bound.            *)
ForScenario_KeepsFirstBinding(scenario_name, group_name) ==
    LET group == IF Truthy(group_name) THEN get_scenario_group(cls, group_name.s)
                 ELSE Ok("route")
        target == IF group.val = "route" THEN cls.scenarios
                  ELSE cls.scenario_groups[group.val].scenarios
        found == /\ scenario_name # ""
                 /\ scenario_name \in DOMAIN target
                 /\ IsCallable(target[scenario_name])
    IN  /\ \A i \in Callers : pc[i] \in Resting
        /\ IF ~group.ok
           THEN /\ UNCHANGED <<scenario_method, current_scenario_group, current_scenario_name>>
                /\ for_scenario_result' = [name |-> scenario_name, group |-> group_name,
                                           err |-> group.err, instantiated |-> None]
           ELSE /\ current_scenario_group' = group_name
                /\ current_scenario_name' = Str(scenario_name)
                /\ for_scenario_result' =
                       [name |-> scenario_name, group |-> group_name,
                        err |-> IF found THEN "" ELSE "AttributeError",
                        instantiated |-> IF group.val = "route" THEN None ELSE Str(group.val)]
                /\ IF found
                   THEN scenario_method' = IF scenario_method = None
                                           THEN [owner |-> group.val, name |-> scenario_name]
                                           ELSE scenario_method
                   ELSE UNCHANGED scenario_method
        /\ UNCHANGED <<cls, after_hooks, hooks_before, request_args, response, pc, call, result, sent, fired>>
        /\ UNCHANGED <<containerVars, mergeVars, metaVars>>

(* BaseRoute.for_scenario: the group is looked up when a group name is     *)
(* given, the two names are stored, the scenario is looked up on the group *)
(* instance or on the route and, when it is callable, stored.              *)
ForScenario(scenario_name, group_name) ==
    LET group == IF Truthy(group_name) THEN get_scenario_group(cls, group_name.s)
                 ELSE Ok("route")
        target == IF group.val = "route" THEN cls.scenarios
                  ELSE cls.scenario_groups[group.val].scenarios
        found == /\ scenario_name # ""
                 /\ scenario_name \in DOMAIN target
                 /\ IsCallable(target[scenario_name])
    IN  /\ \A i \in Callers : pc[i] \in Resting
        /\ IF ~group.ok
           THEN /\ UNCHANGED <<scenario_method, current_scenario_group, current_scenario_name>>
                /\ for_scenario_result' = [name |-> scenario_name, group |-> group_name,
                                           err |-> group.err, instantiated |-> None]
           ELSE /\ current_scenario_group' = group_name
                /\ current_scenario_name' = Str(scenario_name)
                /\ for_scenario_result' =
                       [name |-> scenario_name, group |-> group_name,
                        err |-> IF found THEN "" ELSE "AttributeError",
                        instantiated |-> IF group.val = "route" THEN None ELSE Str(group.val)]
                /\ IF found
                   THEN scenario_method' = [owner |-> group.val, name |-> scenario_name]
                   ELSE UNCHANGED scenario_method
        /\ UNCHANGED <<cls, after_hooks, hooks_before, request_args, response, pc, call, result, sent, fired>>
        /\ UNCHANGED <<containerVars, mergeVars, metaVars>>

(* StoreComposed going on to the transport when the composition raised.   *)
StoreComposed_IgnoresError(i, method, kwargs, out) ==
    /\ pc[i] \in Resting
    /\ call' = [call EXCEPT ![i] = [method |-> method, kwargs |-> kwargs,
                                     bound |-> scenario_method]]
    /\ after_hooks' = out.hooks
    /\ hooks_before' = after_hooks
    /\ sent' = [sent EXCEPT ![i] = <<>>]
    /\ fired' = [fired EXCEPT ![i] = <<>>]
    /\ request_args' = IF out.res.ok THEN Dict(out.res.val) ELSE request_args
    /\ pc' = [pc EXCEPT ![i] = "composed"]
    /\ result' = [result EXCEPT ![i] = NoResult]
    /\ UNCHANGED <<cls, scenario_method, current_scenario_group, current_scenario_name,
                   for_scenario_result, response>>
    /\ UNCHANGED <<containerVars, mergeVars, metaVars>>

(* BaseRoute._request up to the transport call: the descriptor is composed *)
(* and stored, or the composition raises; `out` is the outcome of          *)
(* get_parsed_request_args.                                                *)
StoreComposed(i, method, kwargs, out) ==
    /\ pc[i] \in Resting
    /\ call' = [call EXCEPT ![i] = [method |-> method, kwargs |-> kwargs,
                                     bound |-> scenario_method]]
    /\ after_hooks' = out.hooks
    /\ hooks_before' = after_hooks
    /\ sent' = [sent EXCEPT ![i] = <<>>]
    /\ fired' = [fired EXCEPT ![i] = <<>>]
    /\ IF out.res.ok
       THEN /\ request_args' = Dict(out.res.val)
            /\ pc' = [pc EXCEPT ![i] = "composed"]
            /\ result' = [result EXCEPT ![i] = NoResult]
       ELSE /\ UNCHANGED request_args
            /\ pc' = [pc EXCEPT ![i] = "failed"]
            /\ result' = [result EXCEPT ![i] = Raised("compose", out.res)]
    /\ UNCHANGED <<cls, scenario_method, current_scenario_group, current_scenario_name,
                   for_scenario_result, response>>
    /\ UNCHANGED <<containerVars, mergeVars, metaVars>>

Compose(i, method, kwargs) ==
    StoreComposed(i, method, kwargs,
                  get_parsed_request_args(cls, scenario_method, method, kwargs))

(* Send storing a response only while the route holds none.                *)
Send_KeepsFirstResponse(i, outcome) ==
    /\ pc[i] = "composed"
    /\ sent' = [sent EXCEPT ![i] = Append(@, [method |-> call[i].method, args |-> request_args])]
    /\ IF outcome = "raise"
       THEN /\ pc' = [pc EXCEPT ![i] = "failed"]
            /\ result' = [result EXCEPT ![i] = Raised("transport", Raise("RequestException"))]
            /\ UNCHANGED response
       ELSE /\ pc' = [pc EXCEPT ![i] = "sent"]
            /\ result' = [result EXCEPT ![i] = Pending(Str(outcome))]
            /\ response' = IF response = None THEN Str(outcome) ELSE response
    /\ UNCHANGED <<cls, scenario_method, current_scenario_group, current_scenario_name,
                   for_scenario_result, after_hooks, hooks_before, request_args, call, fired>>
    /\ UNCHANGED <<containerVars, mergeVars, metaVars>>

(* requests.request(method=method, **self._request_args) and, when it      *)
(* returns, self._response = response.                                     *)
Send(i, outcome) ==
    /\ pc[i] = "composed"
    /\ sent' = [sent EXCEPT ![i] = Append(@, [method |-> call[i].method, args |-> request_args])]
    /\ IF outcome = "raise"
       THEN /\ pc' = [pc EXCEPT ![i] = "failed"]
            /\ result' = [result EXCEPT ![i] = Raised("transport", Raise("RequestException"))]
            /\ UNCHANGED response
       ELSE /\ pc' = [pc EXCEPT ![i] = "sent"]
            /\ result' = [result EXCEPT ![i] = Pending(Str(outcome))]
            /\ response' = Str(outcome)
    /\ UNCHANGED <<cls, scenario_method, current_scenario_group, current_scenario_name,
                   for_scenario_result, after_hooks, hooks_before, request_args, call, fired>>
    /\ UNCHANGED <<containerVars, mergeVars, metaVars>>

(* self._execute_after_hooks() and return response.                        *)
ExecuteAfterHooks(i) ==
    LET hooks == HookOrder(after_hooks)
    IN  /\ pc[i] = "sent"
        /\ fired' = [fired EXCEPT ![i] = Called(hooks)]
        /\ IF Raising(hooks) = {}
           THEN /\ pc' = [pc EXCEPT ![i] = "done"]
                /\ result' = [result EXCEPT ![i] = Returned(result[i].val)]
           ELSE /\ pc' = [pc EXCEPT ![i] = "failed"]
                /\ result' = [result EXCEPT ![i] = Raised("hooks", Raise("HookError"))]
        /\ UNCHANGED <<cls, scenario_method, current_scenario_group, current_scenario_name,
                       for_scenario_result, after_hooks, hooks_before, request_args, response, call, sent>>
        /\ UNCHANGED <<containerVars, mergeVars, metaVars>>

(* base_route.BaseRoute.for_scenario                                        *)
SetScenario(scenario_name) ==
    /\ IsMetaRoute(cls)
    /\ \A i \in Callers : pc[i] \in Resting \cup {"created"}
    /\ scenario' = Str(scenario_name)
    /\ UNCHANGED <<frame, containerVars, mergeVars, routeVars>>

(* base_route.BaseRoute._invoke and _async_invoke up to the transport      *)
(* call: the overrides run, the request hooks are applied, the metadata is *)
(* converted; `out` is the outcome of all that.                            *)
StoreInvoked(i, method, path, made_with, out) ==
    /\ IsMetaRoute(cls)
    /\ call' = [call EXCEPT ![i] = [method |-> method, kwargs |-> EmptyMap, bound |-> scenario,
                                     path |-> path, made_with |-> made_with]]
    /\ sent' = [sent EXCEPT ![i] = <<>>]
    /\ fired' = [fired EXCEPT ![i] = out.log]
    /\ IF out.res.ok
       THEN /\ frame' = [frame EXCEPT ![i] = [method_hooks |-> out.hooks,
                                               httpx_args |-> out.res.val]]
            /\ pc' = [pc EXCEPT ![i] = "invoked"]
            /\ result' = [result EXCEPT ![i] = NoResult]
       ELSE /\ frame' = [frame EXCEPT ![i] = NoFrame]
            /\ pc' = [pc EXCEPT ![i] = "failed"]
            /\ result' = [result EXCEPT ![i] = Raised("compose", out.res)]
    /\ UNCHANGED <<cls, scenario_method, current_scenario_group, current_scenario_name,
                   for_scenario_result, after_hooks, hooks_before, request_args, response,
                   scenario, containerVars, mergeVars>>

(* A verb call that runs at once: route.get(), or await route.async_get()   *)
(* with nothing else running before the coroutine starts.                  *)
Invoke(i, method, path) ==
    /\ pc[i] \in Resting
    /\ StoreInvoked(i, method, path, scenario, invoke(cls, upper(method), scenario))

(* route.async_get() and the like are coroutine functions: the call makes  *)
(* a coroutine object and runs nothing of _async_invoke.  made_with is the *)
(* scenario set on the route when the call was made.                       *)
Create(i, method) ==
    /\ IsMetaRoute(cls)
    /\ pc[i] \in Resting
    /\ pc' = [pc EXCEPT ![i] = "created"]
    /\ frame' = [frame EXCEPT ![i] = [method_hooks |-> NewHook, httpx_args |-> EmptyMap,
                                       method |-> method, made_with |-> scenario]]
    /\ call' = [call EXCEPT ![i] = NoCall]
    /\ sent' = [sent EXCEPT ![i] = <<>>]
    /\ fired' = [fired EXCEPT ![i] = <<>>]
    /\ result' = [result EXCEPT ![i] = NoResult]
    /\ UNCHANGED <<cls, scenario_method, current_scenario_group, current_scenario_name,
                   for_scenario_result, after_hooks, hooks_before, request_args, response,
                   scenario, containerVars, mergeVars>>

(* The coroutine starts: _async_invoke runs up to its await, and reads     *)
(* self.scenario now.                                                      *)
Start(i) ==
    /\ pc[i] = "created"
    /\ StoreInvoked(i, frame[i].method, "async", frame[i].made_with,
                    invoke(cls, upper(frame[i].method), scenario))

(* self.request_handler.sync_request(method, url, **httpx_args), or the    *)
(* awaited async_request.                                                  *)
Request(i, outcome) ==
    /\ pc[i] = "invoked"
    /\ sent' = [sent EXCEPT ![i] = Append(@, [method |-> upper(call[i].method),
                                              url |-> cls.endpoint,
                                              args |-> frame[i].httpx_args])]
    /\ IF outcome = "raise"
       THEN /\ pc' = [pc EXCEPT ![i] = "failed"]
            /\ result' = [result EXCEPT ![i] = Raised("transport", Raise("RequestError"))]
       ELSE /\ pc' = [pc EXCEPT ![i] = "responded"]
            /\ result' = [result EXCEPT ![i] = Pending(Str(outcome))]
    /\ UNCHANGED <<cls, scenario_method, current_scenario_group, current_scenario_name,
                   for_scenario_result, after_hooks, hooks_before, request_args, response,
                   scenario, frame, call, fired, containerVars, mergeVars>>

(* self.hook_manager.apply_hooks(method_hooks, "response", response) and   *)
(* return response.                                                        *)
Respond(i) ==
    LET applied == ApplyResponseHooks(frame[i].method_hooks.response_hooks, result[i].val, <<>>)
    IN  /\ pc[i] = "responded"
        /\ fired' = [fired EXCEPT ![i] = @ \o applied.log]
        /\ IF applied.res.ok
           THEN /\ pc' = [pc EXCEPT ![i] = "done"]
                /\ result' = [result EXCEPT ![i] = Returned(result[i].val)]
           ELSE /\ pc' = [pc EXCEPT ![i] = "failed"]
                /\ result' = [result EXCEPT ![i] = Raised("hooks", applied.res)]
        /\ UNCHANGED <<cls, scenario_method, current_scenario_group, current_scenario_name,
                       for_scenario_result, after_hooks, hooks_before, request_args, response,
                       scenario, frame, call, sent, containerVars, mergeVars>>

Next ==
    \/ \E name \in ScenarioNamesOn(cls) : SetScenario(name)
    \/ \E i \in CallersOn(cls), c \in InvocationsOn(cls) : Invoke(i, c[1], c[2])
    \/ \E i \in CallersOn(cls), c \in CoroutinesOn(cls) : Create(i, c[1])
    \/ \E i \in CallersOn(cls) : Start(i)
    \/ \E i \in CallersOn(cls), outcome \in Responses \cup {"raise"} : Request(i, outcome)
    \/ \E i \in CallersOn(cls) : Respond(i)
    \/ \E sc \in ScenariosOn(cls) : ForScenario(sc[1], sc[2])
    \/ \E i \in CallersOn(cls) :
          \E c \in (IF pc[i] = "idle" THEN CallsOn(cls) ELSE LaterCallsOn(cls)) :
              Compose(i, c[1], c[2])
    \/ \E i \in CallersOn(cls), outcome \in Responses \cup {"raise"} : Send(i, outcome)
    \/ \E i \in CallersOn(cls) : ExecuteAfterHooks(i)

Spec == Init /\ [][Next]_vars

SpecMerge == InitMerge /\ [][MergeNext]_vars

SpecContainer == InitContainer /\ [][ContainerNext]_vars

-----------------------------------------------------------------------------
(* Properties of the merge.                                                 *)

RECURSIVE HasDirective(_)
(* A mapping holds the key _merge_strategy, at its own level or in a       *)
(* mapping nested in it at any depth.                                      *)
HasDirective(m) ==
    \/ MS \in DOMAIN m
    \/ \E k \in DOMAIN m : m[k].t = "dict" /\ HasDirective(m[k].m)

RECURSIVE HasUnknownStrategy(_)
(* A mapping nested in m, at any depth, carries a directive that is not    *)
(* one of the valid strategies.                                            *)
HasUnknownStrategy(m) ==
    \E k \in DOMAIN m :
        /\ m[k].t = "dict"
        /\ \/ /\ MS \in DOMAIN m[k].m
              /\ m[k].m[MS] \notin {Str(VALID_MERGE_STRATEGIES[i]) : i \in 1..3}
           \/ HasUnknownStrategy(m[k].m)

(* A value as the merge stores it: a dict without its own directive entry. *)
Stripped(value) == IF value.t = "dict" THEN Dict(Pop(value.m, MS)) ELSE value

BothDicts(before, incoming, k) ==
    /\ k \in DOMAIN before /\ k \in DOMAIN incoming
    /\ before[k].t = "dict" /\ incoming[k].t = "dict"

StrategyOf(value) == IF MS \in DOMAIN value.m THEN value.m[MS] ELSE Str("deep_merge")

(* The last fragment was merged without an error.                          *)
Merged == dictionary # None /\ merged_args.ok

(* The last fragment deep-merged its mapping at x into the accumulated     *)
(* mapping at x: the nested level, with its accumulator before and after.  *)
DeepAtX ==
    /\ Merged
    /\ BothDicts(merged_before, dictionary.m, "x")
    /\ StrategyOf(dictionary.m["x"]) = Str("deep_merge")
NestedBefore == merged_before["x"].m
NestedIncoming == Pop(dictionary.m["x"].m, MS)
NestedAfter == merged_args.val["x"].m

(* C1: the mapping the merge returns holds no _merge_strategy key at any   *)
(* nesting depth.                                                          *)
C1_NoDirectiveInOutput == merged_args.ok => ~HasDirective(merged_args.val)

(* C4: a fragment in which a nested mapping carries an unknown strategy    *)
(* makes the merge fail with the invalid-merge-strategy error (ValueError).*)
C4_UnknownStrategyFails ==
    (dictionary # None /\ HasUnknownStrategy(dictionary.m))
        => (~merged_args.ok /\ merged_args.err = "ValueError")

(* C5: when the accumulated and the incoming value for a key are both      *)
(* mappings and the incoming one carries the strategy remove, the key is   *)
(* absent from the accumulated result once the fragment has been merged    *)
(* (at the top level and inside a deep-merged mapping), and                *)
(* merge([{x:{a:1}}, {x:{_merge_strategy: remove}}]) = {}.                 *)
RemoveDeletes(before, incoming, after, k) ==
    (BothDicts(before, incoming, k) /\ StrategyOf(incoming[k]) = Str("remove"))
        => k \notin DOMAIN after
C5_RemoveDeletesKey ==
    /\ (dictionary # None /\ BothDicts(merged_before, dictionary.m, "x")
            /\ StrategyOf(dictionary.m["x"]) = Str("remove"))
         => (merged_args.ok /\ "x" \notin DOMAIN merged_args.val)
    /\ DeepAtX => RemoveDeletes(NestedBefore, NestedIncoming, NestedAfter, "a")
    /\ (merged_before = ExampleA.m /\ dictionary = ExampleRemove)
         => merged_args = Ok(EmptyMap)
C5_Witness ==
    /\ merged_before = ExampleA.m /\ dictionary = ExampleRemove
    /\ merged_args = Ok(EmptyMap)

(* C6: when both values for a key are mappings and the incoming one        *)
(* carries the strategy replace, the result's value for the key is the     *)
(* incoming mapping without its directive, so no sub-key of the            *)
(* lower-priority mapping survives;                                        *)
(* merge([{x:{a:1,b:2}}, {x:{_merge_strategy: replace, c:3}}]) = {x:{c:3}}.*)
ReplaceOverwrites(before, incoming, after, k) ==
    (BothDicts(before, incoming, k) /\ StrategyOf(incoming[k]) = Str("replace"))
        => (k \in DOMAIN after /\ after[k] = Dict(Pop(incoming[k].m, MS)))
C6_ReplaceOverwrites ==
    /\ (dictionary # None /\ BothDicts(merged_before, dictionary.m, "x")
            /\ StrategyOf(dictionary.m["x"]) = Str("replace"))
         => (merged_args.ok /\ merged_args.val["x"] = Dict(Pop(dictionary.m["x"].m, MS)))
    /\ DeepAtX => ReplaceOverwrites(NestedBefore, NestedIncoming, NestedAfter, "a")
    /\ (merged_before = ExampleAB.m /\ dictionary = ExampleReplace)
         => merged_args = Ok("x" :> Dict("c" :> Val(3)))
C6_Witness ==
    /\ merged_before = ExampleAB.m /\ dictionary = ExampleReplace
    /\ merged_args = Ok("x" :> Dict("c" :> Val(3)))

(* C7: when the two values for a key are not both mappings the   *)
(* incoming value replaces the accumulated one, except that an incoming    *)
(* None keeps the accumulated value.                                       *)
C7_NoneKeepsAccumulated ==
    (Merged /\ "x" \in DOMAIN dictionary.m /\ ~BothDicts(merged_before, dictionary.m, "x"))
        => merged_args.val["x"] =
              IF dictionary.m["x"] = None /\ "x" \in DOMAIN merged_before
              THEN merged_before["x"] ELSE Stripped(dictionary.m["x"])

-----------------------------------------------------------------------------
(* Properties of a verb call.                                               *)

Composed(i) == ~IsMetaRoute(cls) /\ pc[i] \in {"composed", "sent", "done"}
FailedIn(i, stage) == pc[i] = "failed" /\ result[i].status = "raised" /\ result[i].stage = stage

(* C2: when composing the request fails, the error reaches the caller and  *)
(* in that invocation the transport is not invoked and no after hook       *)
(* fires.  The stored descriptor is not replaced either.                   *)
C2_FailedCompositionSendsNothing ==
    \A i \in Callers : ~IsMetaRoute(cls) =>
        /\ (pc[i] = "failed" /\ sent[i] = <<>>)
              => (FailedIn(i, "compose") /\ result[i].err # "" /\ fired[i] = <<>>)
        /\ FailedIn(i, "compose") => (sent[i] = <<>> /\ fired[i] = <<>>)
        /\ (call[i] # NoCall /\ ~get_parsed_request_args(cls, call[i].bound, call[i].method,
                                                         call[i].kwargs).res.ok)
              => (sent[i] = <<>> /\ fired[i] = <<>> /\ pc[i] = "failed")
C2_Witness ==
    /\ FailedIn(1, "compose") /\ result[1].err = "ValueError"
    /\ HooksOf(after_hooks, "route") # <<>>
    /\ sent[1] = <<>> /\ fired[1] = <<>>

(* The four layers of a call, lowest priority first, as plain mappings.    *)
LayersOf(i) ==
    <<cls.route.frag.m,
      IF call[i].method \in DOMAIN cls.methods THEN cls.methods[call[i].method].frag.m
      ELSE EmptyMap,
      IF call[i].bound = None THEN EmptyMap ELSE cls.scenarios[call[i].bound.name].frag.m,
      call[i].kwargs>>
Defining(layers, k) == {n \in 1..4 : k \in DOMAIN layers[n]}
DefiningSub(layers, k, sub) == {n \in Defining(layers, k) : sub \in DOMAIN layers[n][k].m}
Highest(S) == CHOOSE n \in S : \A m \in S : m <= n

DescriptorKeysOf(i) == (DOMAIN call[i].kwargs \ {"url_placeholders"}) \cup {"url"}
HasUrl(i) == "url" \in DOMAIN call[i].kwargs \/ cls.endpoint # ""
AllowedFor(method) ==
    {"url", "headers", "cookies", "auth", "timeout", "allow_redirects", "proxies", "verify",
     "stream", "cert"}
        \cup (IF method \in {"get", "head", "options"} THEN {"params"} ELSE {})
        \cup (IF method \in {"post", "put", "patch"} THEN {"data", "json", "files"} ELSE {})

(* C8: once url_placeholders is removed and url filled in, composition     *)
(* succeeds only if every key of the descriptor is in the common           *)
(* allow-list or in that of the verb; otherwise it fails with a KeyError   *)
(* that names exactly the keys outside the allow-list and the verb, and    *)
(* the transport is not invoked.                                           *)
C8_ValidationRejectsOtherKeys ==
    \A i \in Callers :
        /\ Composed(i) =>
               DOMAIN request_args.m \subseteq
                   Range(ALLOWED_COMMON_PARAMS)
                       \cup Range(ALLOWED_METHOD_PARAMS[upper(call[i].method)])
        /\ (cls.family = "validation" /\ call[i] # NoCall /\ HasUrl(i)) =>
               LET outside == DescriptorKeysOf(i) \ AllowedFor(call[i].method)
               IN  IF outside = {}
                   THEN Composed(i) \/ FailedIn(i, "transport")
                   ELSE /\ FailedIn(i, "compose") /\ result[i].err = "KeyError"
                        /\ result[i].val = [keys |-> outside, method |-> call[i].method]
                        /\ sent[i] = <<>>
C8_Witness ==
    /\ cls.family = "validation" /\ call[1].method = "delete"
    /\ DOMAIN call[1].kwargs = {"params", "endpoint"}
    /\ FailedIn(1, "compose")
    /\ result[1].val = [keys |-> {"params", "endpoint"}, method |-> "delete"]
    /\ sent[1] = <<>>

(* The allow-list as the interface names it.                               *)
NamedAllowedFor(method) ==
    {"url", "headers", "cookies", "auth", "timeout", "allow_redirects", "follow_redirects",
     "proxies", "verify", "stream", "cert", "extensions"}
        \cup (IF method \in {"get", "head", "options"} THEN {"params"} ELSE {})
        \cup (IF method \in {"post", "put", "patch"}
              THEN {"data", "json", "files", "content"} ELSE {})

(* C9 as stated: a descriptor that uses only the keys the interface names  *)
(* for its verb (follow_redirects, extensions and content among them)      *)
(* passes validation.                                                      *)
C9_NamedKeysPass ==
    \A i \in Callers :
        (cls.family = "validation" /\ call[i] # NoCall /\ HasUrl(i)
             /\ DescriptorKeysOf(i) \subseteq NamedAllowedFor(call[i].method))
            => ~FailedIn(i, "compose")

(* C9 as amended: the allow-list is, for every verb, url, headers,         *)
(* cookies, auth, timeout, allow_redirects, proxies, verify, stream, cert; *)
(* in addition params for GET, HEAD and OPTIONS; data, json and files for  *)
(* POST, PUT and PATCH; nothing more for DELETE.  A descriptor passes      *)
(* validation exactly when it uses only these keys for its verb, so        *)
(* follow_redirects, extensions and content are rejected.                  *)
C9_AllowListOfTheCode ==
    \A i \in Callers :
        (cls.family = "validation" /\ call[i] # NoCall /\ HasUrl(i)) =>
            (DescriptorKeysOf(i) \subseteq AllowedFor(call[i].method)) <=> ~FailedIn(i, "compose")
C9_Witness ==
    /\ cls.family = "validation" /\ call[1].method = "post"
    /\ DOMAIN call[1].kwargs = {"json", "files"}
    /\ Composed(1) /\ DOMAIN request_args.m = {"json", "files", "url"}

(* The after hooks held for the three scopes, in the order route, method,  *)
(* scenario.                                                               *)
ScopeOrder ==
    HooksOf(after_hooks, "route") \o HooksOf(after_hooks, "method")
        \o HooksOf(after_hooks, "scenario")
HooksRan(i) == pc[i] = "done" \/ FailedIn(i, "hooks")

(* C10: after the transport returns the after hooks fire in the order     *)
(* route scope, method scope, scenario scope, within a scope in the order  *)
(* of its list, and every registered hook is called exactly once.          *)
C10_EveryHookFiresOnce ==
    \A i \in Callers : (cls.family = "hooks" /\ HooksRan(i)) => fired[i] = ScopeOrder

-----------------------------------------------------------------------------
(* Properties of a sequence of requests on one route.                       *)

Sequential == CallersOn(cls) = {1}
ElementsOf(seq) == {seq[n] : n \in DOMAIN seq}

(* The hooks the overrides of a call register while it is composed: those  *)
(* of the route override, of the override of the call's verb and of the    *)
(* scenario bound when the call was made.                                  *)
RegisteredIn(override) ==
    UNION {ElementsOf(override.regs[n].hooks) : n \in DOMAIN override.regs}
OwnHooks(i) ==
    RegisteredIn(cls.route)
        \cup (IF call[i].method \in DOMAIN cls.methods
              THEN RegisteredIn(cls.methods[call[i].method]) ELSE {})
        \cup (IF call[i].bound = None THEN {}
              ELSE RegisteredIn(ScenarioCallable(cls, call[i].bound)))

(* The same for a route built on base_route.BaseRoute: the identities of   *)
(* the hook functions its bodies add.                                      *)
AddedIn(body) == {body.adds[n].hook_func.id : n \in DOMAIN body.adds}
OwnHookFunctions(i) ==
    AddedIn(cls.route)
        \cup (IF call[i].method \in DOMAIN cls.methods
              THEN AddedIn(cls.methods[call[i].method]) ELSE {})
        \cup (IF Truthy(call[i].bound) /\ call[i].bound.s \in DOMAIN cls.scenarios
                    /\ IsCallable(cls.scenarios[call[i].bound.s])
              THEN AddedIn(cls.scenarios[call[i].bound.s]) ELSE {})

(* C11: over any sequence of requests on one route, a request fires only   *)
(* the hooks registered while it was composed itself, never a hook an      *)
(* earlier request left in the registry: the registry is emptied when a    *)
(* composition starts (core/route.py) or is a new object per invocation    *)
(* (core/base_route.py).                                                   *)
C11_NoHookFromEarlierRequest ==
    (Sequential /\ call[1] # NoCall) =>
        IF IsMetaRoute(cls)
        THEN /\ \A n \in DOMAIN fired[1] : fired[1][n].hook \in OwnHookFunctions(1)
             /\ pc[1] \in {"invoked", "responded"} =>
                    \A h \in ElementsOf(frame[1].method_hooks.request_hooks)
                               \cup ElementsOf(frame[1].method_hooks.response_hooks) :
                        h.id \in OwnHookFunctions(1)
        ELSE /\ ElementsOf(fired[1]) \subseteq OwnHooks(1)
             /\ \A scope \in DOMAIN after_hooks :
                    ElementsOf(after_hooks[scope]) \subseteq OwnHooks(1)
C11_Witness ==
    /\ ~IsMetaRoute(cls) /\ pc[1] = "done" /\ call[1].method = "post"
    /\ HooksOf(hooks_before, "method") # <<>>
    /\ fired[1] = HooksOf(hooks_before, "route") /\ fired[1] # <<>>

(* The after hooks a call's own composition registers, in firing order.    *)
OwnHookOrder(i) ==
    HookOrder(get_request_args(cls, call[i].bound, call[i].method, call[i].kwargs).hooks)

(* C12: when two invocations on one route overlap, each fires the hooks it *)
(* registered itself, each exactly once: none of them is dropped and none  *)
(* is fired by the other invocation.                                       *)
C12_EachInvocationFiresItsOwnHooks ==
    \A i \in Callers :
        (cls.family = "overlap" /\ pc[i] = "done") => fired[i] = OwnHookOrder(i)

-----------------------------------------------------------------------------
(* Properties of scenario resolution.                                       *)

(* The scenario name given to for_scenario names no callable attribute of  *)
(* the route of class c.                                                   *)
Unresolved(c, scenario_name) ==
    scenario_name \notin DOMAIN c.scenarios \/ ~IsCallable(c.scenarios[scenario_name])

(* C13: a request on a route with a scenario name that does not resolve    *)
(* to a callable fails with AttributeError before any hook is fired and    *)
(* before the transport is invoked: in core/route.py at for_scenario, in   *)
(* core/base_route.py when the verb is invoked, on the synchronous and on  *)
(* the asynchronous path.                                                  *)
C13_UnknownScenarioFailsFirst ==
    /\ (cls.family = "failures" /\ for_scenario_result.group = None
            /\ for_scenario_result # NoScenarioCall
            /\ Unresolved(cls, for_scenario_result.name)) =>
           for_scenario_result.err = "AttributeError"
    /\ \A i \in Callers :
           (cls \in MetaClasses /\ call[i].method = "get" /\ call[i].bound # None
                /\ Unresolved(cls, call[i].bound.s)) =>
               /\ FailedIn(i, "compose") /\ result[i].err = "AttributeError"
               /\ fired[i] = <<>> /\ sent[i] = <<>>

(* The attributes for_scenario looks the scenario name up in: those of the *)
(* route, or those of an instance of the group.                            *)
LookupTarget(c, group_name) ==
    IF Truthy(group_name) THEN c.scenario_groups[group_name.s].scenarios ELSE c.scenarios
NameFound(attributes, scenario_name) ==
    scenario_name \in DOMAIN attributes /\ IsCallable(attributes[scenario_name])

(* C14: for_scenario with a group name fails with AttributeError when the  *)
(* route has no scenario_groups mapping, else with KeyError when the group *)
(* name is not in the mapping, else with TypeError when the entry is not a *)
(* type; when these checks pass, or without a group, a scenario name that  *)
(* is missing or not callable on the lookup target fails with              *)
(* AttributeError.  A group is instantiated only when the three checks     *)
(* pass.                                                                   *)
C14_GroupErrorsInOrder ==
    LET r == for_scenario_result
        g == r.group
    IN  (cls.family = "groups" /\ r # NoScenarioCall) =>
            IF Truthy(g) /\ cls.scenario_groups = None
            THEN r.err = "AttributeError" /\ r.instantiated = None
            ELSE IF Truthy(g) /\ g.s \notin DOMAIN cls.scenario_groups
            THEN r.err = "KeyError" /\ r.instantiated = None
            ELSE IF Truthy(g) /\ cls.scenario_groups[g.s].t # "type"
            THEN r.err = "TypeError" /\ r.instantiated = None
            ELSE /\ r.instantiated = (IF Truthy(g) THEN g ELSE None)
                 /\ r.err = IF NameFound(LookupTarget(cls, g), r.name)
                            THEN "" ELSE "AttributeError"

(* The binding a successful for_scenario call makes.                       *)
BindingOf(r) == [owner |-> IF Truthy(r.group) THEN r.group.s ELSE "route", name |-> r.name]
Bound(r) == r # NoScenarioCall /\ r.err = ""

(* C15: a route holds one scenario binding.  After a successful            *)
(* for_scenario the bound callable and the scenario and group names are    *)
(* those of that call, whatever was bound before and however many requests *)
(* were made since; a request is composed with the callable bound when it  *)
(* is made, and its descriptor carries that scenario's fragment.           *)
C15_OneBindingKeptAcrossRequests ==
    ~IsMetaRoute(cls) =>
        /\ Bound(for_scenario_result) =>
               /\ scenario_method = BindingOf(for_scenario_result)
               /\ current_scenario_name = Str(for_scenario_result.name)
               /\ current_scenario_group = for_scenario_result.group
        /\ \A i \in Callers : pc[i] \in {"composed", "sent"} => call[i].bound = scenario_method
        /\ (cls.family = "groups" /\ Composed(1)) =>
               IF call[1].bound = None THEN "timeout" \notin DOMAIN request_args.m
               ELSE request_args.m["timeout"] = ScenarioCallable(cls, call[1].bound).frag.m["timeout"]
(* A request made after an earlier one on the route is composed with the   *)
(* scenario bound from the group.                                          *)
C15_Witness ==
    /\ cls.family = "groups" /\ pc[1] = "composed" /\ call[1].method = "post"
    /\ HooksOf(hooks_before, "route") # <<>>
    /\ Bound(for_scenario_result) /\ for_scenario_result.group = Str("grp")
    /\ call[1].bound = [owner |-> "grp", name |-> "sc"]
    /\ request_args.m["timeout"] = Val(2)

-----------------------------------------------------------------------------
(* Properties of the call of an override.                                   *)

(* The overrides a call goes through, in order, each with its layer.       *)
OverridesOf(i) ==
    <<[layer |-> "route", override |-> cls.route]>>
        \o (IF call[i].method \in DOMAIN cls.methods
            THEN <<[layer |-> "method", override |-> cls.methods[call[i].method]]>> ELSE <<>>)
        \o (IF call[i].bound = None THEN <<>>
            ELSE <<[layer |-> "scenario", override |-> ScenarioCallable(cls, call[i].bound)]>>)
TooMany(overrides) == {n \in DOMAIN overrides : overrides[n].override.arity > 1}

(* C16: an override that declares no parameter contributes its return      *)
(* value; one that declares one parameter contributes what it assigned to  *)
(* the container it was given, and its return value is ignored; at the     *)
(* first override that declares more than one parameter the request fails  *)
(* with TypeError, the overrides before it have run and neither it nor any *)
(* after it has.                                                           *)
C16_FragmentByDeclaredArity ==
    (cls.family = "arity" /\ call[1] # NoCall) =>
        LET overrides == OverridesOf(1)
            ran == {n \in DOMAIN overrides : \A k \in TooMany(overrides) : n < k}
        IN  /\ DOMAIN after_hooks = {overrides[n].layer : n \in ran}
            /\ IF TooMany(overrides) # {}
               THEN FailedIn(1, "compose") /\ result[1].err = "TypeError" /\ sent[1] = <<>>
               ELSE /\ Composed(1) \/ FailedIn(1, "transport")
                    /\ \A n \in DOMAIN overrides :
                           LET o == overrides[n].override
                               key == LayerKey[overrides[n].layer]
                           IN  request_args.m[key] =
                                   IF o.arity = 0 THEN o.ret.m[key] ELSE o.frag.m[key]
(* A request composed from the fragment its route override returns and    *)
(* those its verb override and its scenario assign to their containers,    *)
(* the verb override returning another value for its key.                  *)
C16_Witness ==
    /\ cls.family = "arity" /\ Composed(1) /\ call[1].bound # None
    /\ cls.route.arity = 0 /\ "get" \in DOMAIN cls.methods
    /\ cls.methods["get"].arity = 1 /\ cls.scenarios["sc"].arity = 1
    /\ request_args.m["verify"] = Val(1) /\ cls.methods["get"].ret.m["verify"] = Val(2)

-----------------------------------------------------------------------------
(* Properties of the url.                                                   *)

(* The keyword arguments of a call of the urls family and the values it    *)
(* gives for the placeholders.                                             *)
GivenUrl(i) == "url" \in DOMAIN call[i].kwargs
GivenPlaceholders(i) ==
    IF "url_placeholders" \in DOMAIN call[i].kwargs
    THEN call[i].kwargs["url_placeholders"] ELSE Dict(EmptyMap)
Shown(value) == IF value.t = "val" THEN ToString(value.v) ELSE value.s
NamesIn(endpoint) ==
    CASE endpoint = "/users/{id}" -> {"id"}
      [] endpoint = "/users/{id}/posts/{post}" -> {"id", "post"}
      [] OTHER -> {}
Filled(endpoint, values) ==
    CASE endpoint = "/users/{id}" -> "/users/" \o Shown(values["id"])
      [] endpoint = "/users/{id}/posts/{post}" ->
             "/users/" \o Shown(values["id"]) \o "/posts/" \o Shown(values["post"])
      [] OTHER -> endpoint
HandedOver(i) == {sent[i][n].args.m : n \in DOMAIN sent[i]}

(* C17: when the merged descriptor has no url, the url handed to the       *)
(* transport is the base URL followed by the endpoint, every placeholder   *)
(* of the endpoint replaced by the value url_placeholders has under its    *)
(* name; url_placeholders is taken out before the keys are validated and   *)
(* is in no descriptor handed to the transport; without a url and with an  *)
(* empty endpoint the composition fails with AttributeError.               *)
C17_UrlFromEndpointAndPlaceholders ==
    (cls.family = "urls" /\ call[1] # NoCall) =>
        LET given == GivenPlaceholders(1)
        IN  /\ \A args \in HandedOver(1) : "url_placeholders" \notin DOMAIN args
            /\ (~GivenUrl(1) /\ cls.endpoint = "") =>
                   FailedIn(1, "compose") /\ result[1].err = "AttributeError" /\ sent[1] = <<>>
            /\ (~GivenUrl(1) /\ cls.endpoint # "" /\ given.t = "dict"
                    /\ NamesIn(cls.endpoint) \subseteq DOMAIN given.m) =>
                   /\ Composed(1) \/ FailedIn(1, "transport")
                   /\ "url_placeholders" \notin DOMAIN request_args.m
                   /\ request_args.m["url"] = Str(BASE_URL \o Filled(cls.endpoint, given.m))
                   /\ pc[1] # "composed" =>
                          \E args \in HandedOver(1) : args["url"] = request_args.m["url"]
(* The transport is handed the url of an endpoint with two placeholders,   *)
(* filled from a url_placeholders that holds a third name as well.         *)
C17_Witness ==
    /\ cls.family = "urls" /\ pc[1] = "sent" /\ ~GivenUrl(1)
    /\ cls.endpoint = "/users/{id}/posts/{post}"
    /\ DOMAIN GivenPlaceholders(1).m = {"id", "post", "extra"}
    /\ sent[1][1].args.m["url"] = Str("https://host/users/1/posts/a")

-----------------------------------------------------------------------------
(* Properties of the state a request leaves on the route.                   *)

(* The transport has returned in the invocation of caller i and no after   *)
(* hook has raised.                                                        *)
TransportReturned(i) == pc[i] \in {"sent", "done"}

(* C18: once the transport has returned in an invocation, and until the    *)
(* next invocation on the route, request_args is the descriptor that was   *)
(* handed to the transport in that invocation and response is the response *)
(* the transport returned in it, whatever an earlier invocation left; a    *)
(* for_scenario in between changes neither.                                *)
C18_LastDescriptorAndResponse ==
    (~IsMetaRoute(cls) /\ Sequential /\ TransportReturned(1)) =>
        /\ Len(sent[1]) = 1
        /\ request_args = sent[1][1].args
        /\ response = result[1].val
(* A second invocation has returned another response than the first; a     *)
(* scenario was bound on the route after it.                               *)
C18_Witness ==
    /\ cls.family = "groups" /\ pc[1] = "done" /\ call[1].method = "post"
    /\ HooksOf(hooks_before, "route") # <<>>
    /\ response = Str("r2") /\ result[1].val = Str("r2")
    /\ Bound(for_scenario_result) /\ call[1].bound # scenario_method

-----------------------------------------------------------------------------
(* Properties of the hooks of a route built on base_route.BaseRoute.        *)

CallsFor(i, event) == SelectSeq(fired[i], LAMBDA c : c.event = event)
TransportInvoked(i) == pc[i] \in {"invoked", "responded", "done"}
ParamsOf(meta) ==
    IF "params" \in DOMAIN meta /\ meta["params"].t = "dict" THEN meta["params"].m ELSE EmptyMap
SentParams(i) ==
    IF "params" \in DOMAIN frame[i].httpx_args THEN frame[i].httpx_args["params"].m ELSE EmptyMap

(* C19: on a route built on base_route.BaseRoute the request hooks are     *)
(* called, in order, before the transport is invoked, each with the verb,  *)
(* the endpoint and the composed metadata; what a request hook assigns in  *)
(* that metadata is in the arguments the transport is called with; the     *)
(* response hooks are called, in order, with the response, after the       *)
(* transport has returned and before the verb call returns.                *)
C19_HooksAroundTheTransport ==
    \A i \in Callers :
        (IsMetaRoute(cls) /\ call[i] # NoCall) =>
            LET hooks == frame[i].method_hooks
                requests == CallsFor(i, "request")
                responses == CallsFor(i, "response")
            IN  /\ fired[i] = requests \o responses
                /\ responses # <<>> => Len(sent[i]) = 1
                /\ pc[i] \in {"invoked", "responded"} => responses = <<>>
                /\ pc[i] = "invoked" => sent[i] = <<>>
                /\ TransportInvoked(i) =>
                       /\ Len(requests) = Len(hooks.request_hooks)
                       /\ \A n \in DOMAIN requests :
                              /\ requests[n].hook = hooks.request_hooks[n].id
                              /\ requests[n].args[1] = upper(call[i].method)
                              /\ requests[n].args[2] = cls.endpoint
                              /\ \A k \in DOMAIN ParamsOf(cls.route.sets) :
                                     k \in DOMAIN ParamsOf(requests[n].args[3])
                              /\ requests[n].ran =>
                                     \A k \in DOMAIN hooks.request_hooks[n].sets :
                                         /\ k \in DOMAIN SentParams(i)
                                         /\ SentParams(i)[k] = hooks.request_hooks[n].sets[k]
                /\ pc[i] \in {"responded", "done"} =>
                       sent[i] = <<[method |-> upper(call[i].method), url |-> cls.endpoint,
                                    args |-> frame[i].httpx_args]>>
                /\ pc[i] = "done" =>
                       /\ Len(responses) = Len(hooks.response_hooks)
                       /\ \A n \in DOMAIN responses :
                              /\ responses[n].hook = hooks.response_hooks[n].id
                              /\ responses[n].args = <<result[i].val>>
(* A verb call has returned: its route and verb request hooks assigned a   *)
(* parameter each, both reached the transport, and a response hook was     *)
(* called with the response.                                               *)
C19_Witness ==
    /\ cls \in MetaClasses /\ pc[1] = "done"
    /\ Len(CallsFor(1, "request")) = 2 /\ \A n \in 1..2 : CallsFor(1, "request")[n].ran
    /\ {"route", "method"} \subseteq DOMAIN sent[1][1].args["params"].m
    /\ CallsFor(1, "response") # <<>>

(* C20: firing an event runs every hook to completion, one after the       *)
(* other in the order of registration, a hook that is an asynchronous      *)
(* callable included: what each hook assigns is in place when firing       *)
(* returns, before the transport is invoked.                               *)
C20_AsyncHooksRunToCompletion ==
    \A i \in Callers :
        (IsMetaRoute(cls) /\ call[i] # NoCall) =>
            /\ \A n \in DOMAIN fired[i] : fired[i][n].ran
            /\ TransportInvoked(i) =>
                   \A n \in DOMAIN frame[i].method_hooks.request_hooks :
                       \A k \in DOMAIN frame[i].method_hooks.request_hooks[n].sets :
                           k \in DOMAIN SentParams(i)

-----------------------------------------------------------------------------
(* Properties of the conversion to transport arguments.                     *)

(* The verb override of the route assigns a number to meta.params, which   *)
(* the conversion cannot turn into a mapping, and the invocation of caller *)
(* i gets as far as the conversion: its overrides and scenario ran and no  *)
(* request hook assigned into the number.                                  *)
ReachesFailingConversion(i) ==
    /\ cls \in MetaFailureClasses /\ call[i].method = "get"
    /\ cls.methods["get"].sets = [params |-> Val(5)]
    /\ \A n \in DOMAIN cls.route.adds :
           /\ cls.route.adds[n].event \in {"request", "response"}
           /\ cls.route.adds[n].hook_func.async
    /\ ~Truthy(call[i].bound) \/ ~Unresolved(cls, call[i].bound.s)

(* C21: when the conversion of the composed metadata to transport          *)
(* arguments fails, the invocation fails with a RuntimeError whose message *)
(* begins "Failed to prepare httpx arguments", the transport is not        *)
(* invoked and no response hook is called; an error of the transport       *)
(* itself is another error.                                                *)
C21_ConversionFailureIsWrapped ==
    \A i \in Callers :
        (IsMetaRoute(cls) /\ call[i] # NoCall) =>
            /\ ReachesFailingConversion(i) =>
                   FailedIn(i, "compose") /\ result[i].err = "RuntimeError"
            /\ (FailedIn(i, "compose") /\ result[i].err = "RuntimeError") =>
                   /\ result[i].val = FailedToPrepare
                   /\ sent[i] = <<>>
                   /\ CallsFor(i, "response") = <<>>
            /\ FailedIn(i, "transport") =>
                   result[i].err # "RuntimeError" /\ Len(sent[i]) = 1
(* An asynchronous verb call whose conversion failed after its request     *)
(* hook was called.                                                        *)
C21_Witness ==
    /\ ReachesFailingConversion(1) /\ FailedIn(1, "compose")
    /\ result[1].val = FailedToPrepare /\ call[1].path = "async"
    /\ CallsFor(1, "request") # <<>>


-----------------------------------------------------------------------------
(* Claims about the container.                                             *)

(* What is found along a chain of keys in a container or a plain mapping.  *)
Missing == [t |-> "missing"]
RECURSIVE At(_, _)
At(value, keys) ==
    IF keys = <<>> THEN value
    ELSE IF value.t \in {"ad", "dict"} /\ Head(keys) \in DOMAIN value.m
         THEN At(value.m[Head(keys)], Tail(keys))
    ELSE Missing

(* The plain form of a stored value.                                       *)
Converted(value) ==
    IF value.t = "ad"
    THEN LET plain == to_dict(value.m) IN IF plain.ok THEN Dict(plain.val) ELSE Missing
    ELSE value

(* The keys beside the chain names.name, at every level of it that the     *)
(* container had before the assignment.                                    *)
Siblings(before, names, name) ==
    LET chain == names \o <<name>>
    IN  {SubSeq(chain, 1, i - 1) \o <<k>> :
            <<i, k>> \in {ik \in (1..Len(chain)) \X Range(KeyOrder) :
                             /\ ik[2] # chain[ik[1]]
                             /\ At(before, SubSeq(chain, 1, ik[1] - 1) \o <<ik[2]>>) # Missing}}

(* C22: reading an attribute that was never set returns a new empty        *)
(* container; an assignment through a chain of attributes creates every    *)
(* level of the chain that was unset, keeps the keys beside the chain at   *)
(* every level, and to_dict returns the nested plain mapping with the      *)
(* assigned value at the end of the chain and the siblings beside it.      *)
C22_ChainedAssignmentCreatesLevels ==
    /\ (operation.op = "getattr" /\ operation.names[1] \notin DOMAIN container_before.m) =>
           operation.res = Ok(AttributeDictionary(EmptyMap))
    /\ (operation.op = "setattr" /\ operation.res.ok) =>
           LET chain == operation.names \o <<operation.name>>
               plain == to_dict(container.m)
           IN  /\ At(container, chain) = wrap(operation.value)
               /\ \A i \in 1..Len(operation.names) :
                      At(container, SubSeq(chain, 1, i)).t = "ad"
               /\ \A keys \in Siblings(container_before, operation.names, operation.name) :
                      At(container, keys) = At(container_before, keys)
               /\ plain.ok =>
                      /\ At(Dict(plain.val), chain) = operation.value
                      /\ \A keys \in Siblings(container_before, operation.names, operation.name) :
                             At(Dict(plain.val), keys) = Converted(At(container_before, keys))
(* c.a.b.<name> = value where c.a is set and has a key beside b, and c.a.b *)
(* is not set: the level b is created, the sibling is kept, and the        *)
(* container converts.                                                     *)
C22_Witness ==
    /\ operation.op = "setattr" /\ operation.res.ok
    /\ operation.names = <<"a", "b">>
    /\ At(container_before, <<"a">>).t = "ad"
    /\ At(container_before, <<"a", "b">>) = Missing
    /\ At(container_before, <<"a", "a">>) # Missing
    /\ At(container, <<"a", "b", operation.name>>) = wrap(operation.value)
    /\ to_dict(container.m).ok


(* A plain mapping is held at some key of the value, at some depth.        *)
RECURSIVE HasPlainMapping(_)
HasPlainMapping(value) ==
    \/ value.t = "dict"
    \/ value.t = "ad" /\ \E k \in DOMAIN value.m : HasPlainMapping(value.m[k])

(* A key named items or keys in the mapping or in a mapping held at a key  *)
(* of it, at some depth.                                                   *)
RECURSIVE Reserved(_)
Reserved(value) ==
    /\ value.t \in {"dict", "ad"}
    /\ \E k \in DOMAIN value.m : k \in {"items", "keys"} \/ Reserved(value.m[k])

(* C23: a plain mapping written at a key by the constructor, an attribute  *)
(* assignment or an item assignment is stored as a container, and so is    *)
(* every mapping at a key inside it; for a mapping d of scalars, lists and *)
(* mappings with no key named items or keys, AttributeDictionary(d)        *)
(* converts back to d, and so does a mapping assigned at a key.            *)
C23_MappingsWrappedAndConvertedBack ==
    /\ ~HasPlainMapping(container)
    /\ (operation.op = "init" /\ ~Reserved(operation.value)) =>
           to_dict(container.m) = Ok(operation.value.m)
    /\ (operation.op \in {"setattr", "setitem"} /\ operation.res.ok
            /\ operation.value.t = "dict") =>
           LET stored == At(container, operation.names \o <<operation.name>>)
           IN  /\ stored.t = "ad"
               /\ ~Reserved(operation.value) => Converted(stored) = operation.value
(* A container constructed from a mapping that holds a list at one key and *)
(* a mapping at another, which holds a list in turn, converts back to it.  *)
C23_Witness ==
    /\ operation.op = "init"
    /\ \E k \in DOMAIN operation.value.m : operation.value.m[k].t = "list"
    /\ \E k \in DOMAIN operation.value.m :
           /\ operation.value.m[k].t = "dict"
           /\ operation.value.m[k].m # EmptyMap
           /\ container.m[k].t = "ad"
    /\ to_dict(container.m) = Ok(operation.value.m)


(* C24: to_dict fails with AttributeError when the container or a          *)
(* container held inside it at any depth has a key named items or keys,    *)
(* and succeeds otherwise; writing such a key is accepted and the          *)
(* conversion of the container written to fails; a conversion, failed or   *)
(* not, leaves the container as it was.                                    *)
C24_ReservedKeysFailConversionOnly ==
    /\ Reserved(container) => to_dict(container.m) = Raise("AttributeError")
    /\ ~Reserved(container) => to_dict(container.m).ok
    /\ (operation.op \in {"setattr", "setitem"} /\ operation.names = <<>>
            /\ operation.name \in {"items", "keys"}) =>
           /\ operation.res.ok
           /\ At(container, <<operation.name>>) = wrap(operation.value)
           /\ to_dict(container.m) = Raise("AttributeError")
    /\ operation.op = "to_dict" =>
           /\ operation.res = to_dict(container_before.m)
           /\ container = container_before
(* A conversion that failed for a key named items two levels down, in a    *)
(* container with no such key of its own.                                  *)
C24_Witness ==
    /\ operation.op = "to_dict"
    /\ operation.res = Raise("AttributeError")
    /\ DOMAIN container.m \cap {"items", "keys"} = {}
    /\ \E k, l \in Names : At(container, <<k, l, "items">>) # Missing
    /\ container = container_before


(* C27: reading an unset attribute of a container does not change its      *)
(* contents: membership and to_dict give the same after the read as        *)
(* before it.  So the container handed to a one-parameter override that    *)
(* only reads a key is merged as an empty fragment and the value of a      *)
(* lower layer for that key stays.                                         *)
C27_ReadLeavesContainerAlone ==
    operation.op = "getattr" =>
        /\ \A key \in Range(KeyOrder) :
               contains(container, key) = contains(container_before, key)
        /\ to_dict(container.m) = to_dict(container_before.m)
        /\ container_before = AttributeDictionary(EmptyMap) =>
               \A lower \in {(operation.names[1] :> Val(n)) : n \in 1..MaxVal} :
                   merge_request_args(<<Dict(lower), container>>) = Ok(lower)

-----------------------------------------------------------------------------
(* C25: merging does not modify the fragment it is given: the fragment     *)
(* object is the same after the merge as before it, its _merge_strategy    *)
(* entries included, so merging the same object again into the same        *)
(* accumulator gives the same result.                                      *)
C25_MergeLeavesFragmentsAlone ==
    dictionary # None =>
        /\ dictionary_after = dictionary
        /\ MergeDictionary(merged_before, dictionary_after) = merged_args


(* The last fragment holds at key a mapping that carries the remove        *)
(* directive, and the accumulator held no mapping there.                   *)
RemoveWithoutLower(key) ==
    /\ dictionary # None /\ merged_args.ok
    /\ key \in DOMAIN dictionary.m \ {MS}
    /\ dictionary.m[key].t = "dict" /\ MS \in DOMAIN dictionary.m[key].m
    /\ dictionary.m[key].m[MS] = Str("remove")
    /\ ~(key \in DOMAIN merged_before /\ merged_before[key].t = "dict")
(* The last fragment supplies a key that an earlier fragment of the call   *)
(* removed and none has supplied since.                                    *)
SuppliedAgain(key) ==
    /\ dictionary # None /\ merged_args.ok
    /\ key \in DOMAIN dictionary.m \ {MS}
    /\ key \in removed_before /\ key \notin DOMAIN merged_before
WithoutDirective(value) == IF value.t = "dict" THEN Dict(Pop(value.m, MS)) ELSE value

(* C28 as stated: a mapping that carries the remove directive leaves its   *)
(* key absent also when the accumulator held no mapping there, and a       *)
(* removed key supplied again holds that fragment's contents only.         *)
C28_RemoveWithoutLowerMapping ==
    \A key \in Range(KeyOrder) :
        /\ RemoveWithoutLower(key) => key \notin DOMAIN merged_args.val
        /\ SuppliedAgain(key) /\ ~RemoveWithoutLower(key) =>
               /\ key \in DOMAIN merged_args.val
               /\ merged_args.val[key] = WithoutDirective(dictionary.m[key])

(* C28, amended: a mapping that carries the remove directive is stored     *)
(* under its key, without the directive entry, when the accumulator held   *)
(* no mapping there (the key was missing or held a scalar); and a removed  *)
(* key supplied again holds that fragment's contents only.                 *)
C28_RemoveWithoutLowerIsStored ==
    \A key \in Range(KeyOrder) :
        /\ RemoveWithoutLower(key) =>
               /\ key \in DOMAIN merged_args.val
               /\ merged_args.val[key] = Dict(Pop(dictionary.m[key].m, MS))
        /\ SuppliedAgain(key) =>
               /\ key \in DOMAIN merged_args.val
               /\ merged_args.val[key] = WithoutDirective(dictionary.m[key])
(* A key that was removed is supplied again with a mapping that carries    *)
(* the remove directive and another entry: the entry is in the result.     *)
C28_Witness ==
    /\ SuppliedAgain("x") /\ RemoveWithoutLower("x")
    /\ "a" \in DOMAIN dictionary.m["x"].m
    /\ merged_args.val["x"] = Dict(Pop(dictionary.m["x"].m, MS))


-----------------------------------------------------------------------------
(* The stored scenario name and group name are those of the stored         *)
(* callable: none of the three is set, or the name is the callable's and   *)
(* the group is the one it was looked up on.                               *)
NamesDescribeCallable ==
    IF scenario_method = None
    THEN current_scenario_name = None /\ current_scenario_group = None
    ELSE /\ current_scenario_name = Str(scenario_method.name)
         /\ IF Truthy(current_scenario_group)
            THEN current_scenario_group.s = scenario_method.owner
            ELSE scenario_method.owner = "route"

(* C26: a for_scenario call that fails leaves the stored callable, the     *)
(* stored scenario name and the stored group name as they were, so in      *)
(* every state the stored names describe the stored callable.              *)
C26_FailedForScenarioKeepsBinding ==
    ~IsMetaRoute(cls) => NamesDescribeCallable


-----------------------------------------------------------------------------
(* C29: between invocations the route's request_args and response belong   *)
(* to the same invocation.  After an invocation that returned, or in which *)
(* an after hook raised, both are that invocation's; after one in which    *)
(* the transport raised request_args is that invocation's, which has no    *)
(* response, so the route holds no response of another invocation.         *)
C29_DescriptorAndResponseOfOneInvocation ==
    (~IsMetaRoute(cls) /\ CallersOn(cls) = {1} /\ pc[1] \in Resting /\ call[1] # NoCall) =>
        /\ pc[1] = "done" =>
               request_args = sent[1][1].args /\ response = result[1].val
        /\ FailedIn(1, "hooks") =>
               request_args = sent[1][1].args /\ response # None
        /\ FailedIn(1, "transport") =>
               request_args = sent[1][1].args /\ response = None


-----------------------------------------------------------------------------
(* C30: an asynchronous verb call composes its request with the scenario   *)
(* that was set on the route when the call was made, also when another     *)
(* call was made through for_scenario before its coroutine started.        *)
C30_CallAppliesItsOwnScenario ==
    \A i \in Callers :
        (IsMetaRoute(cls) /\ call[i] # NoCall) => call[i].bound = call[i].made_with

====
